---- MODULE Spec2Model ----
(***************************************************************************)
(* Partial predicate solver (lib/auth/predicate/partial/solver.go):        *)
(* lowering of a Go expression AST to solver terms, the model enumeration  *)
(* loop of partialSolveForAllImpl, and the goroutine / channel / timer     *)
(* protocol of Solver.PartialSolveForAll.                                  *)
(***************************************************************************)
EXTENDS Integers, Sequences, FiniteSets, TLC

(***************************************************************************)
(* Bounds of the model.                                                    *)
(***************************************************************************)
\* integer solver variables range over 0..MaxInt
MaxInt == 3
\* number of PartialSolveForAll calls made on one Solver
MaxCalls == 2
\* number of not, or and and nodes of a formula handed to the DPLL solver
MaxOps == 2
\* number of usage events callers submit in all
MaxEvents == 22
\* number of submit calls that return an error
MaxFailures == 1
\* number of UpsertRole and DeleteRole calls made on one auth server
MaxRoleCalls == 2
\* width in bits of a ref's ID (64 in the code, scaled down)
UintBits == 4
\* length of a ref's Type, and of a string handed to parseRef
MaxTypeLen == 2
MaxStrLen == 3

(***************************************************************************)
(* type Type int: TypeInt, TypeBool, TypeString (iota).                    *)
(***************************************************************************)
TypeInt == 0
TypeBool == 1
TypeString == 2

(***************************************************************************)
(* Go AST nodes produced by parser.ParseExpr.  Source text of literals and *)
(* identifier paths is kept as a sequence of one-character strings.        *)
(***************************************************************************)
Ident(name) == [node |-> "Ident", Name |-> name]
BasicLit(kind, value) == [node |-> "BasicLit", Kind |-> kind, Value |-> value]
BinaryExpr(x, op, y) == [node |-> "BinaryExpr", X |-> x, Op |-> op, Y |-> y]
UnaryExpr(op, x) == [node |-> "UnaryExpr", Op |-> op, X |-> x]
ParenExpr(x) == [node |-> "ParenExpr", X |-> x]
SelectorExpr(x, sel) == [node |-> "SelectorExpr", X |-> x, Sel |-> sel]
CallExpr(fun, arg) == [node |-> "CallExpr", Fun |-> fun, Arg |-> arg]
IndexExpr(x, index) == [node |-> "IndexExpr", X |-> x, Index |-> index]
CompositeLit == [node |-> "CompositeLit"]

(***************************************************************************)
(* z3 values.  A constant carries its sort and its value, a variable its   *)
(* sort and name, a compound term its operator and operands.               *)
(***************************************************************************)
NoValue == [k |-> "nil"]
IntConst(n) == [k |-> "const", sort |-> "Int", i |-> n, s |-> <<>>, b |-> FALSE]
BoolConst(v) == [k |-> "const", sort |-> "Bool", i |-> 0, s |-> <<>>, b |-> v]
StringConst(str) == [k |-> "const", sort |-> "String", i |-> 0, s |-> str, b |-> FALSE]
Var(name, sort) == [k |-> "var", sort |-> sort, name |-> name]
Term2(op, x, y) == [k |-> op, x |-> x, y |-> y]
Term1(op, x) == [k |-> op, x |-> x]

\* z3.Value.Sort().Kind(); every compound term built by lowering is boolean
SortOf(v) == IF v.k \in {"const", "var"} THEN v.sort ELSE "Bool"

\* the strings the solver can choose for a string variable
StringDomain == {<<"a">>, <<"b">>, <<"c">>}

DomainOf(sort) ==
    CASE sort = "Int" -> {IntConst(n) : n \in 0..MaxInt}
      [] sort = "Bool" -> {BoolConst(v) : v \in BOOLEAN}
      [] sort = "String" -> {StringConst(str) : str \in StringDomain}
      [] OTHER -> {}

(***************************************************************************)
(* Resolver results: nil (unknown), or a Go int, string or bool.           *)
(***************************************************************************)
GoNil == [t |-> "nil", i |-> 0, s |-> <<>>, b |-> FALSE]
GoInt(n) == [t |-> "int", i |-> n, s |-> <<>>, b |-> FALSE]
GoString(str) == [t |-> "string", i |-> 0, s |-> str, b |-> FALSE]
GoBool(v) == [t |-> "bool", i |-> 0, s |-> <<>>, b |-> v]

(***************************************************************************)
(* Helpers for source text.                                                *)
(***************************************************************************)
RECURSIVE Join(_)
\* strings.Join(fields, "."): the fields with a "." between neighbours
Join(fields) ==
    IF Len(fields) <= 1 THEN fields
    ELSE <<Head(fields), ".">> \o Join(Tail(fields))

Digits == <<"0", "1", "2", "3", "4", "5", "6", "7", "8", "9">>
IsDigit(ch) == \E d \in 1..10 : Digits[d] = ch
DigitVal(ch) == (CHOOSE d \in 1..10 : Digits[d] = ch) - 1

RECURSIVE AtoiAcc(_, _)
AtoiAcc(text, acc) ==
    IF text = <<>> THEN acc
    ELSE AtoiAcc(Tail(text), acc * 10 + DigitVal(Head(text)))

\* strconv.Atoi: ok is FALSE when the text is not a decimal number
Atoi(text) ==
    IF text # <<>> /\ \A p \in 1..Len(text) : IsDigit(text[p])
    THEN [ok |-> TRUE, n |-> AtoiAcc(text, 0)]
    ELSE [ok |-> FALSE, n |-> 0]

(***************************************************************************)
(* Lowering.  A lowering context carries what the ctx struct carries that  *)
(* lowering reads or writes: idents, unkTy, resolveIdentifier, and the     *)
(* list of paths the resolver was called with.  A lowering result is the   *)
(* updated context, the value and the error ("" is nil, "panic" is a       *)
(* failed type assertion).                                                 *)
(***************************************************************************)
Ok(c, v) == [c |-> c, v |-> v, err |-> ""]
Fail(c, err) == [c |-> c, v |-> NoValue, err |-> err]

\* a lookup that never finds a cached identifier
NeverInIdents(c, full) == FALSE

\* if v, ok := ctx.idents[full]; ok
InIdents(c, full) == full \in DOMAIN c.idents

\* ctx.idents[full] = v
Bind(c, full, v) ==
    [c EXCEPT !.idents = [p \in DOMAIN c.idents \cup {full} |->
                             IF p = full THEN v ELSE c.idents[p]]]

\* ctx.resolve
resolve(c, fields) ==
    LET full == Join(fields) IN
    IF InIdents(c, full) THEN Ok(c, c.idents[full])
    ELSE LET val == c.resolveIdentifier[fields]
             c1 == [c EXCEPT !.rcalls = Append(c.rcalls, fields)]
         IN IF val.t # "nil"
            THEN CASE val.t = "int" -> Ok(Bind(c1, full, IntConst(val.i)), IntConst(val.i))
                   [] val.t = "string" -> Ok(Bind(c1, full, StringConst(val.s)), StringConst(val.s))
                   [] OTHER -> Fail(c1, "BadParameter")
            ELSE Ok(Bind(c1, full, Var(full, c.unkTy)), Var(full, c.unkTy))

\* pickType: the common kind of x and y, or an error
pickType(x, y) ==
    IF SortOf(x) # SortOf(y) THEN [kind |-> "", err |-> "BadParameter"]
    ELSE [kind |-> SortOf(x), err |-> ""]

\* x.(z3.Int), x.(z3.Bool): the type assertion succeeds for that sort only
Is(x, sort) == SortOf(x) = sort

RECURSIVE evaluateSelector(_, _)
evaluateSelector(sel, fields) ==
    LET fields1 == <<sel.Sel>> \o fields IN
    CASE sel.X.node = "SelectorExpr" -> evaluateSelector(sel.X, fields1)
      [] sel.X.node = "Ident" -> [fields |-> <<sel.X.Name>> \o fields1, err |-> ""]
      [] OTHER -> [fields |-> <<>>, err |-> "BadParameter"]

lowerBasicLit(c, n) ==
    CASE n.Kind = "INT" ->
           LET value == Atoi(n.Value) IN
           IF ~value.ok THEN Fail(c, "NumError") ELSE Ok(c, IntConst(value.n))
      [] n.Kind = "STRING" -> Ok(c, StringConst(SubSeq(n.Value, 2, Len(n.Value) - 1)))
      [] OTHER -> Fail(c, "NotImplemented")

lowerIndexExpr(c, n) == Fail(c, "BadParameter")

lowerCallExpr(c, n) == Fail(c, "BadParameter")

lowerSelectorExpr(c, n) ==
    LET sel == evaluateSelector(n, <<>>) IN
    IF sel.err # "" THEN Fail(c, sel.err) ELSE resolve(c, sel.fields)

lowerIdent(c, n) ==
    CASE n.Name = "true" -> Ok(c, BoolConst(TRUE))
      [] n.Name = "false" -> Ok(c, BoolConst(TRUE))
      [] OTHER -> resolve(c, <<n.Name>>)

\* the switch on node.Op of lowerBinary, once both operands are lowered
binaryOp(c, op, x, y) ==
    CASE op = "EQL" ->
           LET ty == pickType(x, y) IN
           IF ty.err # "" THEN Fail(c, ty.err)
           ELSE IF ty.kind \in {"Int", "Bool", "String"} THEN Ok(c, Term2("eq", x, y))
           ELSE Fail(c, "BadParameter")
      [] op = "LSS" -> IF Is(x, "Int") /\ Is(y, "Int") THEN Ok(c, Term2("lt", x, y)) ELSE Fail(c, "panic")
      [] op = "LEQ" -> IF Is(x, "Int") /\ Is(y, "Int") THEN Ok(c, Term2("le", x, y)) ELSE Fail(c, "panic")
      [] op = "GTR" -> IF Is(x, "Int") /\ Is(y, "Int") THEN Ok(c, Term2("gt", x, y)) ELSE Fail(c, "panic")
      [] op = "GEQ" -> IF Is(x, "Int") /\ Is(y, "Int") THEN Ok(c, Term2("ge", x, y)) ELSE Fail(c, "panic")
      [] op = "LAND" -> IF Is(x, "Bool") /\ Is(y, "Bool") THEN Ok(c, Term2("and", x, y)) ELSE Fail(c, "panic")
      [] op = "LOR" -> IF Is(x, "Bool") /\ Is(y, "Bool") THEN Ok(c, Term2("or", x, y)) ELSE Fail(c, "panic")
      [] OTHER -> Fail(c, "NotImplemented")

RECURSIVE lower(_, _)
lowerBinary(c, n) ==
    LET x == lower(c, n.X) IN
    IF x.err # "" THEN x
    ELSE LET y == lower(x.c, n.Y) IN
         IF y.err # "" THEN y
         ELSE binaryOp(y.c, n.Op, x.v, y.v)

lowerUnary(c, n) ==
    IF n.Op = "NOT"
    THEN LET x == lower(c, n.X) IN
         IF x.err # "" THEN x
         ELSE IF Is(x.v, "Bool") THEN Ok(x.c, Term1("not", x.v)) ELSE Fail(x.c, "panic")
    ELSE Fail(c, "NotImplemented")

lower(c, n) ==
    CASE n.node = "ParenExpr" -> lower(c, n.X)
      [] n.node = "BinaryExpr" -> lowerBinary(c, n)
      [] n.node = "UnaryExpr" -> lowerUnary(c, n)
      [] n.node = "BasicLit" -> lowerBasicLit(c, n)
      [] n.node = "IndexExpr" -> lowerIndexExpr(c, n)
      [] n.node = "SelectorExpr" -> lowerSelectorExpr(c, n)
      [] n.node = "Ident" -> lowerIdent(c, n)
      [] n.node = "CallExpr" -> lowerCallExpr(c, n)
      [] OTHER -> Fail(c, "NotImplemented")

(***************************************************************************)
(* The solver: the assertion stack is a sequence of boolean terms; Check   *)
(* is satisfiable when some assignment of the variables that occur in the  *)
(* stack makes every asserted term true; Model is such an assignment.      *)
(***************************************************************************)
RECURSIVE VarsOf(_)
VarsOf(t) ==
    CASE t.k = "var" -> {t}
      [] t.k \in {"const", "nil"} -> {}
      [] t.k = "not" -> VarsOf(t.x)
      [] OTHER -> VarsOf(t.x) \cup VarsOf(t.y)

StackVars(st) == UNION {VarsOf(st[p]) : p \in 1..Len(st)}

AllValues == DomainOf("Int") \cup DomainOf("Bool") \cup DomainOf("String")

RECURSIVE Assignments(_)
\* the functions that give every variable a value of its sort
Assignments(vars) ==
    IF vars = {} THEN [vars -> AllValues]
    ELSE LET v == CHOOSE x \in vars : TRUE
         IN  {[x \in vars |-> IF x = v THEN d ELSE r[x]] :
                 d \in DomainOf(v.sort), r \in Assignments(vars \ {v})}

\* the value the solver gives a variable no assertion mentions
DefaultOf(sort) ==
    CASE sort = "Int" -> IntConst(0)
      [] sort = "Bool" -> BoolConst(FALSE)
      [] OTHER -> StringConst(<<>>)

RECURSIVE Eval(_, _)
\* model.Eval(t, true)
Eval(a, t) ==
    CASE t.k = "const" -> t
      [] t.k = "var" -> IF t \in DOMAIN a THEN a[t] ELSE DefaultOf(t.sort)
      [] t.k = "eq" -> BoolConst(Eval(a, t.x) = Eval(a, t.y))
      [] t.k = "distinct" -> BoolConst(Eval(a, t.x) # Eval(a, t.y))
      [] t.k = "lt" -> BoolConst(Eval(a, t.x).i < Eval(a, t.y).i)
      [] t.k = "le" -> BoolConst(Eval(a, t.x).i <= Eval(a, t.y).i)
      [] t.k = "gt" -> BoolConst(Eval(a, t.x).i > Eval(a, t.y).i)
      [] t.k = "ge" -> BoolConst(Eval(a, t.x).i >= Eval(a, t.y).i)
      [] t.k = "and" -> BoolConst(Eval(a, t.x).b /\ Eval(a, t.y).b)
      [] t.k = "or" -> BoolConst(Eval(a, t.x).b \/ Eval(a, t.y).b)
      [] t.k = "not" -> BoolConst(~Eval(a, t.x).b)
      [] OTHER -> BoolConst(FALSE)

\* the models of the assertion stack
Models(st) ==
    {a \in Assignments(StackVars(st)) : \A p \in 1..Len(st) : Eval(a, st[p]).b}

\* an Assert that forgets the term
SolverAssertDropped(st, t) == st

\* solver.Assert (the name is taken by the TLC module)
SolverAssert(st, t) == Append(st, t)

\* a Reset that leaves the assertions in place
ResetKeeps(st) == st

\* solver.Reset
Reset(st) == <<>>

\* an equality where the disequality is meant
DistinctAsEq(x, y) == Term2("eq", x, y)

\* ctx.def.Distinct(val, last)
Distinct(x, y) == Term2("distinct", x, y)

(***************************************************************************)
(* Inputs of PartialSolveForAll.                                           *)
(***************************************************************************)
X == Ident("x")
Y == Ident("y")
Stage == SelectorExpr(Ident("env"), "stage")
Int1 == BasicLit("INT", <<"1">>)
Int2 == BasicLit("INT", <<"2">>)
StrA == BasicLit("STRING", <<"\"", "a", "\"">>)
StrB == BasicLit("STRING", <<"\"", "b", "\"">>)

\* comparisons of one identifier
Atomic ==
    {BinaryExpr(X, op, r) : op \in {"LSS", "LEQ", "GTR", "GEQ", "EQL"}, r \in {Int1, Int2}}
    \cup {BinaryExpr(X, op, Y) : op \in {"LSS", "EQL"}}
    \cup {BinaryExpr(l, "EQL", r) : l \in {X, Stage}, r \in {StrA, StrB}}
    \cup {BinaryExpr(X, "EQL", Ident(b)) : b \in {"true", "false"}}
    \cup {BinaryExpr(Y, "EQL", Int1), BinaryExpr(Y, "EQL", Int2)}

\* conjunctions and disjunctions of two comparisons
Left ==
    {BinaryExpr(X, "GEQ", Int1), BinaryExpr(X, "EQL", Int1), BinaryExpr(Stage, "EQL", StrA),
     BinaryExpr(Y, "EQL", Int1)}
Right ==
    {BinaryExpr(X, "LEQ", Int2), BinaryExpr(X, "EQL", Int2), BinaryExpr(X, "GTR", Int1),
     BinaryExpr(Y, "EQL", Int2)}
Compound == {BinaryExpr(l, op, r) : l \in Left, op \in {"LAND", "LOR"}, r \in Right}

\* negation, parentheses, bare identifiers and literals
Other ==
    {UnaryExpr("NOT", BinaryExpr(X, "EQL", Int1)), UnaryExpr("NOT", X),
     UnaryExpr("NOT", Int1), ParenExpr(BinaryExpr(X, "EQL", Int2)),
     X, Ident("true"), Ident("false"), Int1,
     BinaryExpr(X, "LSS", StrA), BinaryExpr(Int1, "LAND", Int2), BinaryExpr(X, "LOR", Int1),
     BinaryExpr(BinaryExpr(X, "EQL", Int1), "EQL", BinaryExpr(Y, "EQL", Int1)),
     BinaryExpr(BinaryExpr(X, "EQL", StrA), "LOR", BinaryExpr(X, "EQL", StrB)),
     BinaryExpr(BinaryExpr(Stage, "EQL", StrA), "LAND", BinaryExpr(X, "EQL", StrB))}

\* constructs lowering rejects
Rejected ==
    {CallExpr(Ident("f"), X), IndexExpr(X, Int1),
     BinaryExpr(X, "EQL", UnaryExpr("SUB", Int1)),
     BinaryExpr(BinaryExpr(X, "ADD", Int1), "EQL", Int2),
     BinaryExpr(X, "EQL", BasicLit("INT", <<"0", "x", "1">>)),
     BinaryExpr(X, "EQL", BasicLit("FLOAT", <<"1", ".", "0">>)),
     BinaryExpr(SelectorExpr(CallExpr(Ident("f"), X), "stage"), "EQL", StrA),
     CompositeLit}

\* parser.ParseExpr either fails or yields an AST
SyntaxError == [ok |-> FALSE, ast |-> CompositeLit]
Parsed(ast) == [ok |-> TRUE, ast |-> ast]
Predicates == {SyntaxError} \cup {Parsed(a) : a \in Atomic \cup Compound \cup Other \cup Rejected}

Paths == {<<"x">>, <<"y">>, <<"env", "stage">>, <<"f">>}
NothingKnown == [p \in Paths |-> GoNil]
Resolvers ==
    {NothingKnown,
     [NothingKnown EXCEPT ![<<"y">>] = GoInt(1), ![<<"env", "stage">>] = GoString(<<"a">>)],
     [NothingKnown EXCEPT ![<<"x">>] = GoInt(1), ![<<"env", "stage">>] = GoString(<<"b">>)],
     [NothingKnown EXCEPT ![<<"y">>] = GoBool(TRUE)]}

Queries == {<<"x">>, <<"y">>, <<"env", ".", "stage">>}
\* the three declared query types and one value outside them
Types == {TypeInt, TypeBool, TypeString, TypeString + 1}

Args(p, r, q, t) == [predicate |-> p, resolveIdentifier |-> r, querying |-> q, to |-> t]

\* predicates that are also queried for an identifier other than x
Requeried ==
    {Parsed(a) : a \in {BinaryExpr(X, "EQL", Int1), BinaryExpr(X, "LSS", Y),
                        BinaryExpr(Y, "EQL", Int1), BinaryExpr(Stage, "EQL", StrA),
                        BinaryExpr(BinaryExpr(Y, "EQL", Int1), "LAND", BinaryExpr(Y, "EQL", Int2)),
                        BinaryExpr(BinaryExpr(Stage, "EQL", StrA), "LOR", BinaryExpr(X, "EQL", Int2))}}

\* the argument lists a call is made with
Inputs ==
    {Args(p, r, <<"x">>, t) : p \in Predicates, r \in Resolvers,
                              t \in {TypeInt, TypeBool, TypeString}}
    \cup {Args(p, r, q, t) : p \in Requeried, r \in Resolvers, q \in Queries, t \in Types}

\* the argument lists of the calls that follow the first one on a Solver: the
\* requeried predicates, a syntax error and a rejected construct
LaterInputs ==
    {a \in Inputs : a.predicate \in Requeried \cup {SyntaxError, Parsed(IndexExpr(X, Int1))}}

(***************************************************************************)
(* The DPLL solver for purely boolean formulas.                            *)
(***************************************************************************)
\* results of evalClause
dpllSatisfied == 0
dpllUnsatisfied == 1
dpllUnknown == 2

\* the node types
nodeLiteral(value) == [type |-> "literal", value |-> value]
nodeIdentifier(key) == [type |-> "identifier", key |-> key]
nodeNot(left) == [type |-> "not", left |-> left]
nodeOr(left, right) == [type |-> "or", left |-> left, right |-> right]
nodeAnd(left, right) == [type |-> "and", left |-> left, right |-> right]

assignment(key, value) == [key |-> key, value |-> value]

\* a *string: nil, or a pointer to a key
Nil == <<>>
Ptr(key) == <<key>>

\* the identifiers of a node
RECURSIVE KeysOf(_)
KeysOf(node) ==
    CASE node.type = "literal" -> {}
      [] node.type = "identifier" -> {node.key}
      [] node.type = "not" -> KeysOf(node.left)
      [] OTHER -> KeysOf(node.left) \cup KeysOf(node.right)

RECURSIVE pickLiteralRightFirst(_, _)
\* a pickLiteral that looks at the right operand before the left
pickLiteralRightFirst(node, isExcluded) ==
    CASE node.type = "literal" -> Nil
      [] node.type = "identifier" ->
            IF node.key \in isExcluded THEN Nil ELSE Ptr(node.key)
      [] node.type = "not" -> pickLiteralRightFirst(node.left, isExcluded)
      [] OTHER ->
            LET left == pickLiteralRightFirst(node.left, isExcluded)
                right == pickLiteralRightFirst(node.right, isExcluded)
            IN  IF right # Nil THEN right ELSE left

\* the first identifier of node, left before right, that isExcluded (the set
\* of keys the callback answers true for) does not exclude
RECURSIVE pickLiteral(_, _)
pickLiteral(node, isExcluded) ==
    CASE node.type = "literal" -> Nil
      [] node.type = "identifier" ->
            IF node.key \in isExcluded THEN Nil ELSE Ptr(node.key)
      [] node.type = "not" -> pickLiteral(node.left, isExcluded)
      [] OTHER ->
            LET left == pickLiteral(node.left, isExcluded)
                right == pickLiteral(node.right, isExcluded)
            IN  IF left # Nil THEN left ELSE right

\* what a function of the DPLL solver hands back: a result, or a panic
\* (res is "true", "false", "ok" or "panic"), and the state it leaves
Outcome(res, st) == [res |-> res, st |-> st]

NoState == [clauses |-> <<>>, assignments |-> <<>>, watched |-> <<>>,
            enforce |-> <<>>, uprop |-> <<>>]

\* watched[lit] = append(watched[lit], clause)
Watch(watched, lit, clause) ==
    [k \in DOMAIN watched \cup {lit} |->
        IF k = lit
        THEN Append(IF lit \in DOMAIN watched THEN watched[lit] ELSE <<>>, clause)
        ELSE watched[k]]

\* newState: the formula is its only clause (no CNF conversion); the closure
\* of the second pickLiteral reads *a, and is only called on an identifier,
\* which a clause with a = nil does not have; []string{*a, *b} dereferences
\* both pointers
newState(clause) ==
    LET clauses == <<clause>>
        a == pickLiteral(clause, {})
        b == pickLiteral(clause, {k \in KeysOf(clause) : a = Nil \/ k # a[1]})
        st == [NoState EXCEPT !.clauses = clauses]
    IN  IF a # Nil THEN Outcome("ok", [st EXCEPT !.enforce = <<clause>>])
        ELSE IF b # Nil THEN Outcome("ok", [st EXCEPT !.uprop = <<clause>>])
        ELSE IF a = Nil \/ b = Nil THEN Outcome("panic", NoState)
        ELSE Outcome("ok", [st EXCEPT !.watched =
                                Watch(Watch(<<>>, a[1], clause), b[1], clause)])

\* evalClause
evalClause(st, clause) == dpllUnknown

\* isAssigned: whether key is assigned, and the value of its first assignment
isAssigned(st, key) ==
    LET hits == {i \in DOMAIN st.assignments : st.assignments[i].key = key}
    IN  IF hits = {} THEN <<FALSE, FALSE>>
        ELSE <<TRUE, st.assignments[CHOOSE i \in hits : \A j \in hits : i <= j].value>>

\* pickUnassigned: the first identifier, clause by clause, that is not assigned
RECURSIVE pickUnassignedFrom(_, _)
pickUnassignedFrom(st, i) ==
    IF i > Len(st.clauses) THEN Nil
    ELSE LET a == pickLiteral(st.clauses[i],
                              {k \in KeysOf(st.clauses[i]) : isAssigned(st, k)[1]})
         IN  IF a # Nil THEN a ELSE pickUnassignedFrom(st, i + 1)

pickUnassigned(st) == pickUnassignedFrom(st, 1)

\* the closure satisfied of backtrackAdjust: no clause evaluates to unsatisfied
satisfied(st) ==
    \A i \in DOMAIN st.clauses : evalClause(st, st.clauses[i]) # dpllUnsatisfied

\* ass := &rem[len(rem)-1]; ass.value = !ass.value: rem shares the backing
\* array of state.assignments, so the last assignment of the state is flipped
FlipLast(st) ==
    [st EXCEPT !.assignments[Len(st.assignments)].value = ~@]

\* backtrackAdjust(state, rem) with rem = state.assignments[from-1:]; the
\* closure recurse slices rem[1:], which is out of range when rem is empty
RECURSIVE backtrackAdjust(_, _)
backtrackAdjust(st, from) ==
    LET lenRem == Len(st.assignments) - from + 1
        recurse(s) ==
            IF satisfied(s) THEN Outcome("true", s)
            ELSE IF lenRem = 0 THEN Outcome("panic", s)
            ELSE backtrackAdjust(s, from + 1)
        first == recurse(st)
    IN  IF first.res # "false" THEN first
        ELSE IF lenRem > 0
        THEN LET second == recurse(FlipLast(first.st))
             IN  IF second.res # "false" THEN second
                 ELSE Outcome("false", second.st)
        ELSE Outcome("false", first.st)

\* the first loop of dpll: the clauses of enforce, from the i-th on
RECURSIVE enforceCheck(_, _)
enforceCheck(st, i) ==
    IF i > Len(st.enforce) THEN Outcome("ok", st)
    ELSE LET e == evalClause(st, st.enforce[i])
         IN  IF e = dpllSatisfied THEN enforceCheck(st, i + 1)
             ELSE IF e = dpllUnsatisfied THEN Outcome("false", st)
             ELSE Outcome("panic", st)

\* the search loop of dpll
RECURSIVE search(_)
search(st) ==
    LET literal == pickUnassigned(st)
    IN  IF literal = Nil THEN Outcome("true", st)
        ELSE LET assigned == [st EXCEPT !.assignments =
                                 Append(@, assignment(literal[1], TRUE))]
                 adjusted == backtrackAdjust(assigned, 1)
             IN  IF adjusted.res = "true" THEN search(adjusted.st)
                 ELSE adjusted

\* dpll(state)
dpllRun(st) ==
    LET enforced == enforceCheck(st, 1)
    IN  IF enforced.res = "ok" THEN search(st) ELSE enforced

\* the bounded inputs: the formulas built with at most MaxOps operators over
\* the identifiers a and b and the two literals
Atoms == {nodeIdentifier("a"), nodeIdentifier("b"), nodeLiteral(TRUE), nodeLiteral(FALSE)}

RECURSIVE FormulasOfSize(_)
FormulasOfSize(n) ==
    IF n = 0 THEN Atoms
    ELSE {nodeNot(x) : x \in FormulasOfSize(n - 1)}
         \cup UNION {{nodeOr(x, y) : x \in FormulasOfSize(i), y \in FormulasOfSize(n - 1 - i)}
                        : i \in 0..(n - 1)}
         \cup UNION {{nodeAnd(x, y) : x \in FormulasOfSize(i), y \in FormulasOfSize(n - 1 - i)}
                        : i \in 0..(n - 1)}

Formulas == UNION {FormulasOfSize(n) : n \in 0..MaxOps}

NoDpll == [pc |-> "idle", formula |-> nodeLiteral(TRUE), state |-> NoState, result |-> ""]


(***************************************************************************)
(* The auth server's roles: UpsertRole, DeleteRole and the constraint that *)
(* keeps somebody able to edit roles.  The stores are maps; a user is a    *)
(* record of its name, whether it is local (no connector created it) and   *)
(* its role names; a role is a record of its name and its allow rules.     *)
(***************************************************************************)
KindRole == "role"
VerbUpdate == "update"

Rule(resources, verbs) == [resources |-> resources, verbs |-> verbs]
Role(name, allow) == [name |-> name, allow |-> allow]

\* roleHasUpdateRolesRule: some allow rule has the role resource and the
\* update verb
roleHasUpdateRolesRule(role) ==
    \E rule \in role.allow : KindRole \in rule.resources /\ VerbUpdate \in rule.verbs

\* getRolesWithUpdateRolesRule: the names of the stored roles with the rule
getRolesWithUpdateRolesRule(roles) ==
    {n \in DOMAIN roles : roleHasUpdateRolesRule(roles[n])}

\* a constraint that counts the target role among the roles a user keeps
constraintKeepsTarget(roles, users, targetRole) ==
    LET rolesWithUpdateRolesRule == getRolesWithUpdateRolesRule(roles)
        isRoleLosingUpdateRolesRule ==
            targetRole.name \in rolesWithUpdateRolesRule /\ ~roleHasUpdateRolesRule(targetRole)
        localUsersWithPermissionToEditRoles ==
            {u \in users : u.local /\ u.roles \cap rolesWithUpdateRolesRule # {}}
    IN  IF ~isRoleLosingUpdateRolesRule THEN ""
        ELSE IF localUsersWithPermissionToEditRoles # {} THEN ""
        ELSE "BadParameter"

\* checkRoleRulesConstraint: "" is nil
checkRoleRulesConstraint(roles, users, targetRole) ==
    LET rolesWithUpdateRolesRule == getRolesWithUpdateRolesRule(roles)
        isRoleLosingUpdateRolesRule ==
            targetRole.name \in rolesWithUpdateRolesRule /\ ~roleHasUpdateRolesRule(targetRole)
        localUsersWithPermissionToEditRoles ==
            {u \in users :
                LET rolesWithoutTarget == u.roles \ {targetRole.name}
                IN  u.local /\ rolesWithoutTarget \cap rolesWithUpdateRolesRule # {}}
    IN  IF ~isRoleLosingUpdateRolesRule THEN ""
        ELSE IF localUsersWithPermissionToEditRoles # {} THEN ""
        ELSE "BadParameter"

\* a check that looks at the users only
roleUsedByUser(name, users, cas) == \E u \in users : name \in u.roles

\* DeleteRole, the two loops: the role is used by a user or by a user CA
roleInUse(name, users, cas) ==
    \/ \E u \in users : name \in u.roles
    \/ \E ca \in cas : name \in ca.roles

\* the outcome of UpsertRole: error, role store, audit log; fails names the
\* backend call that fails in this call, if any
upsertRole(srv, role, fails) ==
    LET constraint == checkRoleRulesConstraint(srv.roles, srv.users, role)
        same == [err |-> "", roles |-> srv.roles, audit |-> srv.audit]
    IN  IF fails = "GetRoles" THEN [same EXCEPT !.err = "ConnectionProblem"]
        ELSE IF fails = "GetUsers" /\ role.name \in getRolesWithUpdateRolesRule(srv.roles)
                                   /\ ~roleHasUpdateRolesRule(role)
        THEN [same EXCEPT !.err = "ConnectionProblem"]
        ELSE IF constraint # "" THEN [same EXCEPT !.err = constraint]
        ELSE IF fails = "UpsertRole" THEN [same EXCEPT !.err = "ConnectionProblem"]
        ELSE [err |-> "",
              roles |-> [n \in DOMAIN srv.roles \cup {role.name} |->
                            IF n = role.name THEN role ELSE srv.roles[n]],
              audit |-> Append(srv.audit, <<"role.created", role.name>>)]

\* the outcome of DeleteRole
deleteRole(srv, name, fails) ==
    LET same == [err |-> "", roles |-> srv.roles, audit |-> srv.audit]
    IN  IF fails = "GetUsers" THEN [same EXCEPT !.err = "ConnectionProblem"]
        ELSE IF \E u \in srv.users : name \in u.roles THEN [same EXCEPT !.err = "BadParameter"]
        ELSE IF fails = "GetCertAuthorities" THEN [same EXCEPT !.err = "ConnectionProblem"]
        ELSE IF roleInUse(name, srv.users, srv.cas) THEN [same EXCEPT !.err = "BadParameter"]
        ELSE IF fails = "DeleteRole" THEN [same EXCEPT !.err = "ConnectionProblem"]
        ELSE IF name \notin DOMAIN srv.roles THEN [same EXCEPT !.err = "NotFound"]
        ELSE [err |-> "",
              roles |-> [n \in DOMAIN srv.roles \ {name} |-> srv.roles[n]],
              audit |-> Append(srv.audit, <<"role.deleted", name>>)]

RoleNames == {"a", "b"}
UpdateRoles == Rule({KindRole}, {VerbUpdate})
\* no rule; the rule; the resource and the verb in two different rules
RuleSets == {{}, {UpdateRoles}, {Rule({KindRole}, {"read"}), Rule({"node"}, {VerbUpdate})}}
RoleStores ==
    UNION {[names -> RuleSets] : names \in SUBSET RoleNames}
StoredRoles == {[n \in DOMAIN st |-> Role(n, st[n])] : st \in RoleStores}
\* one local user and one user created by a connector
UserSets ==
    {{[name |-> "u1", local |-> TRUE, roles |-> r1], [name |-> "u2", local |-> FALSE, roles |-> r2]} :
        r1 \in SUBSET RoleNames, r2 \in SUBSET RoleNames}
\* the user cert authorities: the one of a trusted cluster
CertAuthorities == {{[name |-> "leaf", roles |-> r]} : r \in SUBSET RoleNames}

NoRet == [op |-> "", name |-> "", role |-> Role("", {}), fails |-> "none", err |-> ""]
NoServer == [roles |-> <<>>, users |-> {}, cas |-> {}, audit |-> <<>>, ret |-> NoRet, ncalls |-> 0]

(***************************************************************************)
(* Execution refs: ref.String and parseRef.  A string is a sequence of     *)
(* one-character strings.                                                  *)
(***************************************************************************)
MaxUint == 2 ^ UintBits - 1

RECURSIVE FormatUint(_)
\* %d of an unsigned integer
FormatUint(n) ==
    IF n < 10 THEN <<Digits[n + 1]>>
    ELSE Append(FormatUint(n \div 10), Digits[(n % 10) + 1])

RECURSIVE ParseDigits(_, _)
\* the loop of strconv.ParseUint over the characters of str, n parsed so far
ParseDigits(str, n) ==
    IF str = <<>> THEN [n |-> n, err |-> ""]
    ELSE IF ~IsDigit(Head(str)) THEN [n |-> 0, err |-> "syntax"]
    ELSE IF n * 10 + DigitVal(Head(str)) > MaxUint THEN [n |-> MaxUint, err |-> "range"]
    ELSE ParseDigits(Tail(str), n * 10 + DigitVal(Head(str)))

\* strconv.ParseUint(str, 10, 64)
ParseUint(str) ==
    IF str = <<>> THEN [n |-> 0, err |-> "syntax"] ELSE ParseDigits(str, 0)

\* the index of the first "-" of str, counted from 0, or -1
IndexDash(str) ==
    IF \E p \in 1..Len(str) : str[p] = "-"
    THEN (CHOOSE p \in 1..Len(str) : str[p] = "-" /\ \A q \in 1..(p - 1) : str[q] # "-") - 1
    ELSE -1

\* strings.LastIndex(str, "-"), counted from 0, or -1
LastIndexDash(str) ==
    IF \E p \in 1..Len(str) : str[p] = "-"
    THEN (CHOOSE p \in 1..Len(str) : str[p] = "-" /\ \A q \in (p + 1)..Len(str) : str[q] # "-") - 1
    ELSE -1

ref(type, id) == [Type |-> type, ID |-> id, dir |-> <<>>]

\* ref.String: fmt.Sprintf("%s-%d", r.Type, r.ID)
refString(r) == r.Type \o <<"-">> \o FormatUint(r.ID)

\* parseRef
parseRef(str) ==
    LET i == LastIndexDash(str) IN
    IF i < 1 THEN [r |-> ref(<<>>, 0), ok |-> FALSE]
    ELSE LET rtype == SubSeq(str, 1, i)
             sid == SubSeq(str, i + 2, Len(str))
             id == ParseUint(sid)
         IN  [r |-> ref(rtype, id.n), ok |-> id.err = ""]

RefChars == {"a", "-", "1"}
StringsUpTo(n) == UNION {[1..k -> RefChars] : k \in 0..n}
\* the refs with a non-empty Type, dashes included, and every ID
Refs == {ref(t, id) : t \in StringsUpTo(MaxTypeLen) \ {<<>>}, id \in 0..MaxUint}
NoRefs == [pc |-> "idle", r |-> ref(<<>>, 0), s |-> <<>>, parsed |-> ref(<<>>, 0), ok |-> FALSE]

(***************************************************************************)
(* State.                                                                  *)
(***************************************************************************)
VARIABLES
    stack,      \* Solver.solver: the assertion stack, kept across calls
    calls,      \* PartialSolveForAll calls started on this Solver
    args,       \* arguments of the call in flight (or of the last call)
    cpc,        \* position of the caller in PartialSolveForAll
    branch,     \* the select case the caller took
    result,     \* what PartialSolveForAll returned
    outCh,      \* chan []z3.Value, capacity 1
    errCh,      \* chan error, capacity 1
    gpc,        \* position of the solve goroutine
    lctx,       \* ctx: idents, unkTy, resolveIdentifier (and the resolver calls)
    deferred,   \* whether partialSolveForAllImpl has deferred solver.Reset
    cond,       \* the lowered predicate
    sat,        \* result of the last Check
    model,      \* the model of the last satisfiable Check
    val,        \* ctx.idents[querying]
    last,       \* model.Eval(val, true)
    out,        \* values collected by the loop
    err,        \* error partialSolveForAllImpl returns ("" is nil)
    interrupted, \* s.def.Interrupt() was called during this call
    checks,     \* what each ctx.solver.Check() of the running call reported
    sent,       \* how many values the goroutine has sent on outCh and on errCh
    dpll,       \* the DPLL solver: formula, state, position and result
    buf,        \* UsageReporter.buf: the events waiting to be batched
    events,     \* the sends blocked on UsageReporter.events, each with its batch
    rpc,        \* position of UsageReporter.Run
    spc,        \* position of UsageReporter.runSubmit
    submitting, \* the batch runSubmit received from submissionQueue
    done,       \* UsageReporter.ctx is cancelled
    nextEvent,  \* the number of the next event a caller submits
    discarded,  \* the events Run has discarded
    submitted,  \* the events of the batches for which submit returned nil
    failures,   \* the number of submit calls that returned an error
    timer,      \* the maxBatchAge timer of Run: none, armed or expired
    server,     \* the auth server: role store, users, user CAs, audit log, last call
    refs        \* an execution ref, its string and what parseRef made of it

vars == <<stack, calls, args, cpc, branch, result, outCh, errCh, gpc, lctx,
          deferred, cond, sat, model, val, last, out, err, interrupted, checks,
          sent, dpll, buf, events, rpc, spc, submitting, done, nextEvent, discarded,
          submitted, failures, timer, server, refs>>

callerVars == <<cpc, branch, result>>
implVars == <<lctx, deferred, cond, sat, model, val, last, out, err, checks>>
solverVars == <<stack, calls, args, callerVars, outCh, errCh, gpc, implVars,
                interrupted, sent>>
usageVars == <<buf, events, rpc, spc, submitting, done, nextEvent, discarded, submitted,
               failures, timer>>

\* what the actions of one component leave alone: the other components
notSolver == <<dpll, usageVars, server, refs>>
notDpll == <<solverVars, usageVars, server, refs>>
notUsage == <<solverVars, dpll, server, refs>>
notServer == <<solverVars, dpll, usageVars, refs>>
notRefs == <<solverVars, dpll, usageVars, server>>

NoArgs == [predicate |-> SyntaxError, resolveIdentifier |-> NothingKnown,
           querying |-> <<>>, to |-> TypeInt]
NoCtx == [idents |-> <<>>, unkTy |-> "", resolveIdentifier |-> NothingKnown, rcalls |-> <<>>]
NoModel == <<>>
NewChan == [buf |-> <<>>, closed |-> FALSE]
NoResult == [vals |-> <<>>, err |-> ""]
NoSends == [out |-> 0, err |-> 0]

\* a receive does not block: the buffer holds a value or the channel is closed
Ready(ch) == ch.buf # <<>> \/ ch.closed
\* the value a receive yields: the buffered one, or the zero value when closed
Recv(ch, zero) == IF ch.buf # <<>> THEN Head(ch.buf) ELSE zero
AfterRecv(ch) == [ch EXCEPT !.buf = IF ch.buf = <<>> THEN <<>> ELSE Tail(ch.buf)]

\* NewSolver
SolverInit ==
    /\ stack = <<>>
    /\ calls = 0
    /\ args = NoArgs
    /\ cpc = "idle"
    /\ branch = ""
    /\ result = NoResult
    /\ outCh = NewChan
    /\ errCh = NewChan
    /\ gpc = "none"
    /\ lctx = NoCtx
    /\ deferred = FALSE
    /\ cond = NoValue
    /\ sat = FALSE
    /\ model = NoModel
    /\ val = NoValue
    /\ last = NoValue
    /\ out = <<>>
    /\ err = ""
    /\ interrupted = FALSE
    /\ checks = <<>>
    /\ sent = NoSends

(***************************************************************************)
(* The caller: Solver.PartialSolveForAll.                                  *)
(***************************************************************************)
\* entry: make the channels, start the goroutine, reach the select
Call ==
    /\ cpc \in {"idle", "returned"}
    /\ gpc \in {"none", "exited"}
    /\ calls < MaxCalls
    /\ args' \in IF calls = 0 THEN Inputs ELSE LaterInputs
    /\ calls' = calls + 1
    /\ outCh' = NewChan
    /\ errCh' = NewChan
    /\ gpc' = "parse"
    /\ cpc' = "select"
    /\ branch' = ""
    /\ result' = NoResult
    /\ lctx' = NoCtx
    /\ deferred' = FALSE
    /\ cond' = NoValue
    /\ sat' = FALSE
    /\ model' = NoModel
    /\ val' = NoValue
    /\ last' = NoValue
    /\ out' = <<>>
    /\ err' = ""
    /\ interrupted' = FALSE
    /\ checks' = <<>>
    /\ sent' = NoSends
    /\ UNCHANGED <<stack, notSolver>>

\* case out := <-outCh: return out, nil
SelectOut ==
    /\ cpc = "select"
    /\ Ready(outCh)
    /\ result' = [vals |-> Recv(outCh, <<>>), err |-> ""]
    /\ outCh' = AfterRecv(outCh)
    /\ branch' = "out"
    /\ cpc' = "returned"
    /\ UNCHANGED <<stack, calls, args, errCh, gpc, implVars, interrupted, sent, notSolver>>

\* case err := <-errCh: return nil, err
SelectErr ==
    /\ cpc = "select"
    /\ Ready(errCh)
    /\ result' = [vals |-> <<>>, err |-> Recv(errCh, "")]
    /\ errCh' = AfterRecv(errCh)
    /\ branch' = "err"
    /\ cpc' = "returned"
    /\ UNCHANGED <<stack, calls, args, outCh, gpc, implVars, interrupted, sent, notSolver>>

\* case <-time.After(timeout): s.def.Interrupt()
SelectTimer ==
    /\ cpc = "select"
    /\ interrupted' = TRUE
    /\ branch' = "timer"
    /\ cpc' = "drain"
    /\ UNCHANGED <<stack, calls, args, result, outCh, errCh, gpc, implVars, sent, notSolver>>

\* a timeout path that does not wait for the goroutine
DrainNoWait == TRUE

\* the wait of the timeout path: <-outCh
DrainReady == Ready(outCh)

\* a timeout path that hands on what it drained
TimeoutResultPartial(drained) == [vals |-> drained, err |-> "LimitExceeded"]

\* what the timeout path returns once it has received drained from outCh
TimeoutResult(drained) == [vals |-> <<>>, err |-> "LimitExceeded"]

\* <-outCh; return nil, trace.LimitExceeded("timeout")
Drain ==
    /\ cpc = "drain"
    /\ DrainReady
    /\ result' = TimeoutResult(Recv(outCh, <<>>))
    /\ outCh' = AfterRecv(outCh)
    /\ cpc' = "returned"
    /\ UNCHANGED <<stack, calls, args, branch, errCh, gpc, implVars, interrupted, sent, notSolver>>

(***************************************************************************)
(* The solve goroutine: partialSolveForAllImpl, then the send and the      *)
(* deferred closes of the go func in PartialSolveForAll.                   *)
(***************************************************************************)
\* the switch on to
SortFor(to) ==
    CASE to = TypeInt -> "Int"
      [] to = TypeBool -> "Bool"
      [] to = TypeString -> "String"
      [] OTHER -> ""

\* ast, err := parser.ParseExpr(predicate); ctx := &ctx{...}; defer ctx.solver.Reset()
GParse ==
    /\ gpc = "parse"
    /\ IF ~args.predicate.ok
       THEN /\ err' = "SyntaxError"
            /\ gpc' = "exit"
            /\ UNCHANGED <<lctx, deferred>>
       ELSE /\ lctx' = [idents |-> <<>>, unkTy |-> "",
                        resolveIdentifier |-> args.resolveIdentifier, rcalls |-> <<>>]
            /\ deferred' = TRUE
            /\ gpc' = "sort"
            /\ err' = err
    /\ UNCHANGED <<stack, calls, args, callerVars, outCh, errCh, cond, sat, model,
                   val, last, out, checks, interrupted, sent, notSolver>>

\* switch to { ... default: return nil, trace.BadParameter }
GSort ==
    /\ gpc = "sort"
    /\ IF SortFor(args.to) = ""
       THEN /\ err' = "BadParameter"
            /\ gpc' = "exit"
            /\ lctx' = lctx
       ELSE /\ lctx' = [lctx EXCEPT !.unkTy = SortFor(args.to)]
            /\ gpc' = "lower"
            /\ err' = err
    /\ UNCHANGED <<stack, calls, args, callerVars, outCh, errCh, deferred, cond, sat,
                   model, val, last, out, checks, interrupted, sent, notSolver>>

\* cond, err := lower(ctx, ast)
GLower ==
    /\ gpc = "lower"
    /\ LET r == lower(lctx, args.predicate.ast) IN
       /\ lctx' = r.c
       /\ cond' = r.v
       /\ IF r.err = "panic" THEN gpc' = "panic" /\ err' = err
          ELSE IF r.err # "" THEN gpc' = "exit" /\ err' = r.err
          ELSE gpc' = "assert" /\ err' = err
    /\ UNCHANGED <<stack, calls, args, callerVars, outCh, errCh, deferred, sat, model,
                   val, last, out, checks, interrupted, sent, notSolver>>

\* ctx.solver.Assert(cond.(z3.Bool))
GAssert ==
    /\ gpc = "assert"
    /\ IF Is(cond, "Bool")
       THEN stack' = SolverAssert(stack, cond) /\ gpc' = "check"
       ELSE stack' = stack /\ gpc' = "panic"
    /\ UNCHANGED <<calls, args, callerVars, outCh, errCh, implVars, interrupted, sent, notSolver>>

\* ctx.solver.Check() is entered
GCheckBegin ==
    /\ gpc = "check"
    /\ gpc' = "inCheck"
    /\ UNCHANGED <<stack, calls, args, callerVars, outCh, errCh, implVars, interrupted, sent, notSolver>>

\* ctx.solver.Check() returns: an error if it was interrupted (best effort),
\* otherwise whether the stack is satisfiable
GCheckEnd ==
    /\ gpc = "inCheck"
    /\ \/ /\ interrupted
          /\ err' = "ErrSatUnknown"
          /\ gpc' = "exit"
          /\ sat' = FALSE
          /\ checks' = Append(checks, "error")
       \/ /\ sat' = (Models(stack) # {})
          /\ gpc' = IF sat' THEN "model" ELSE "exit"
          /\ err' = err
          /\ checks' = Append(checks, IF sat' THEN "sat" ELSE "unsat")
    /\ UNCHANGED <<stack, calls, args, callerVars, outCh, errCh, lctx, deferred, cond,
                   model, val, last, out, interrupted, sent, notSolver>>

\* model := ctx.solver.Model()
GModel ==
    /\ gpc = "model"
    /\ \E a \in Models(stack) : model' = a
    /\ gpc' = "lookup"
    /\ UNCHANGED <<stack, calls, args, callerVars, outCh, errCh, lctx, deferred, cond,
                   sat, val, last, out, err, checks, interrupted, sent, notSolver>>

\* val, ok := ctx.idents[querying]; if !ok { return nil, trace.NotFound }
GLookup ==
    /\ gpc = "lookup"
    /\ IF args.querying \in DOMAIN lctx.idents
       THEN val' = lctx.idents[args.querying] /\ gpc' = "eval" /\ err' = err
       ELSE val' = val /\ gpc' = "exit" /\ err' = "NotFound"
    /\ UNCHANGED <<stack, calls, args, callerVars, outCh, errCh, lctx, deferred, cond,
                   sat, model, last, out, checks, interrupted, sent, notSolver>>

\* an iteration that asserts the disequality before it appends the value
GEvalAssertsFirst ==
    /\ gpc = "eval"
    /\ last' = Eval(model, val)
    /\ stack' = SolverAssert(stack, Term2("distinct", val, last'))
    /\ gpc' = "neq"
    /\ UNCHANGED <<calls, args, callerVars, outCh, errCh, lctx, deferred, cond,
                   sat, model, val, out, err, checks, interrupted, sent, notSolver>>

\* last := model.Eval(val, true); out = append(out, last)
GEval ==
    /\ gpc = "eval"
    /\ last' = Eval(model, val)
    /\ out' = Append(out, last')
    /\ gpc' = "neq"
    /\ UNCHANGED <<stack, calls, args, callerVars, outCh, errCh, lctx, deferred, cond,
                   sat, model, val, err, checks, interrupted, sent, notSolver>>

\* neq := ctx.def.Distinct(val, last); ctx.solver.Assert(neq)
GAssertNeq ==
    /\ gpc = "neq"
    /\ stack' = SolverAssert(stack, Distinct(val, last))
    /\ gpc' = "check"
    /\ UNCHANGED <<calls, args, callerVars, outCh, errCh, implVars, interrupted, sent, notSolver>>

\* a return path on which the deferred Reset is missing
AfterDeferredMissing(st, isDeferred) == st

\* the stack after the deferred calls of partialSolveForAllImpl have run
AfterDeferred(st, isDeferred) == IF isDeferred THEN Reset(st) ELSE st

\* return from partialSolveForAllImpl: the deferred Reset runs, the locals die,
\* and (nil, err) is returned on an error
GReturn ==
    /\ gpc = "exit"
    /\ stack' = AfterDeferred(stack, deferred)
    /\ out' = IF err # "" THEN <<>> ELSE out
    /\ lctx' = NoCtx
    /\ deferred' = FALSE
    /\ cond' = NoValue
    /\ sat' = FALSE
    /\ model' = NoModel
    /\ val' = NoValue
    /\ last' = NoValue
    /\ checks' = <<>>
    /\ gpc' = "send"
    /\ UNCHANGED <<calls, args, callerVars, outCh, errCh, err, interrupted, sent, notSolver>>

\* a goroutine that falls through to the send on outCh after the send on errCh
GSendBoth ==
    /\ gpc = "send"
    /\ errCh' = IF err # "" THEN [errCh EXCEPT !.buf = Append(errCh.buf, err)] ELSE errCh
    /\ outCh' = [outCh EXCEPT !.buf = Append(outCh.buf, out)]
    /\ sent' = [out |-> sent.out + 1, err |-> sent.err + (IF err # "" THEN 1 ELSE 0)]
    /\ gpc' = "closeErr"
    /\ UNCHANGED <<stack, calls, args, callerVars, implVars, interrupted, notSolver>>

\* if err != nil { errCh <- err; return }; outCh <- out
GSend ==
    /\ gpc = "send"
    /\ IF err # ""
       THEN /\ errCh' = [errCh EXCEPT !.buf = Append(errCh.buf, err)]
            /\ sent' = [sent EXCEPT !.err = @ + 1]
            /\ outCh' = outCh
       ELSE /\ outCh' = [outCh EXCEPT !.buf = Append(outCh.buf, out)]
            /\ sent' = [sent EXCEPT !.out = @ + 1]
            /\ errCh' = errCh
    /\ gpc' = "closeErr"
    /\ UNCHANGED <<stack, calls, args, callerVars, implVars, interrupted, notSolver>>

\* defer close(errCh): runs first
GCloseErr ==
    /\ gpc = "closeErr"
    /\ errCh' = [errCh EXCEPT !.closed = TRUE]
    /\ gpc' = "closeOut"
    /\ UNCHANGED <<stack, calls, args, callerVars, outCh, implVars, interrupted, sent, notSolver>>

\* defer close(outCh): runs last
GCloseOut ==
    /\ gpc = "closeOut"
    /\ outCh' = [outCh EXCEPT !.closed = TRUE]
    /\ gpc' = "exited"
    /\ UNCHANGED <<stack, calls, args, callerVars, errCh, implVars, interrupted, sent, notSolver>>

\* a failed type assertion panics: the deferred calls run and the process dies
GPanic ==
    /\ gpc = "panic"
    /\ stack' = AfterDeferred(stack, deferred)
    /\ errCh' = [errCh EXCEPT !.closed = TRUE]
    /\ outCh' = [outCh EXCEPT !.closed = TRUE]
    /\ gpc' = "crashed"
    /\ cpc' = "crashed"
    /\ UNCHANGED <<calls, args, branch, result, implVars, interrupted, sent, notSolver>>

\* NewUsageReporter: nothing buffered, Run and runSubmit not yet started
UsageInit ==
    /\ buf = <<>>
    /\ events = <<>>
    /\ rpc = "new"
    /\ spc = "new"
    /\ submitting = <<>>
    /\ done = FALSE
    /\ nextEvent = 1
    /\ discarded = {}
    /\ submitted = {}
    /\ failures = 0
    /\ timer = "none"

\* no role call made, no ref under way
RestInit ==
    /\ server = NoServer
    /\ refs = NoRefs

\* NewSolver; no DPLL run is under way
Init ==
    /\ SolverInit
    /\ dpll = NoDpll
    /\ UsageInit
    /\ RestInit

Next ==
    \/ Call
    \/ SelectOut
    \/ SelectErr
    \/ SelectTimer
    \/ Drain
    \/ GParse
    \/ GSort
    \/ GLower
    \/ GAssert
    \/ GCheckBegin
    \/ GCheckEnd
    \/ GModel
    \/ GLookup
    \/ GEval
    \/ GAssertNeq
    \/ GReturn
    \/ GSend
    \/ GCloseErr
    \/ GCloseOut
    \/ GPanic

Spec == Init /\ [][Next]_vars

(***************************************************************************)
(* The DPLL solver: a run of newState and dpll on one formula.             *)
(***************************************************************************)
\* a caller holds a formula and is about to call newState
DpllInit ==
    /\ SolverInit
    /\ UsageInit
    /\ RestInit
    /\ dpll \in {[NoDpll EXCEPT !.pc = "new", !.formula = f] : f \in Formulas}

\* state := newState(formula)
DNewState ==
    /\ dpll.pc = "new"
    /\ LET r == newState(dpll.formula) IN
       dpll' = IF r.res = "panic"
               THEN [dpll EXCEPT !.pc = "done", !.result = "panic"]
               ELSE [dpll EXCEPT !.pc = "dpll", !.state = r.st]
    /\ UNCHANGED notDpll

\* dpll(state)
DDpll ==
    /\ dpll.pc = "dpll"
    /\ LET r == dpllRun(dpll.state) IN
       dpll' = [dpll EXCEPT !.pc = "done", !.state = r.st, !.result = r.res]
    /\ UNCHANGED notDpll

DpllNext ==
    \/ DNewState
    \/ DDpll

DpllSpec == DpllInit /\ [][DpllNext]_vars

(***************************************************************************)
(* dpll, step by step, on a state handed to it: the state holds the        *)
(* formula as its one clause, nothing is assigned, and the enforce bucket  *)
(* holds the clause or nothing.                                            *)
(***************************************************************************)
DpllSearchInit ==
    /\ SolverInit
    /\ UsageInit
    /\ RestInit
    /\ dpll \in {[pc |-> "enforce", formula |-> f,
                  state |-> [NoState EXCEPT !.clauses = <<f>>,
                                            !.enforce = IF enforced THEN <<f>> ELSE <<>>],
                  result |-> ""] : f \in Formulas, enforced \in BOOLEAN}

\* for _, clause := range state.enforce { switch evalClause(state, clause) ... }
DEnforce ==
    /\ dpll.pc = "enforce"
    /\ LET r == enforceCheck(dpll.state, 1) IN
       dpll' = IF r.res = "ok" THEN [dpll EXCEPT !.pc = "pick"]
               ELSE [dpll EXCEPT !.pc = "done", !.result = r.res]
    /\ UNCHANGED notDpll

\* literal := pickUnassigned(state); if literal == nil { return true };
\* state.assignments = append(state.assignments, assignment{*literal, true})
DPick ==
    /\ dpll.pc = "pick"
    /\ LET literal == pickUnassigned(dpll.state) IN
       dpll' = IF literal = Nil THEN [dpll EXCEPT !.pc = "done", !.result = "true"]
               ELSE [dpll EXCEPT !.pc = "adjust",
                                 !.state.assignments = Append(@, assignment(literal[1], TRUE))]
    /\ UNCHANGED notDpll

\* if !backtrackAdjust(state, state.assignments) { return false }
DAdjust ==
    /\ dpll.pc = "adjust"
    /\ LET r == backtrackAdjust(dpll.state, 1) IN
       dpll' = IF r.res = "true" THEN [dpll EXCEPT !.pc = "pick", !.state = r.st]
               ELSE [dpll EXCEPT !.pc = "done", !.state = r.st, !.result = r.res]
    /\ UNCHANGED notDpll

DpllSearchNext ==
    \/ DEnforce
    \/ DPick
    \/ DAdjust

DpllSearchSpec == DpllSearchInit /\ [][DpllSearchNext]_vars

(***************************************************************************)
(* The usage reporter: Run, runSubmit and the callers of                   *)
(* SubmitAnonymizedUsageEvents.  Both channels are unbuffered, so a send   *)
(* and its receive are one step; an event is known by its number.          *)
(***************************************************************************)
usageReporterMinBatchSize == 5
usageReporterMaxBatchSize == 10
usageReporterMaxBufferSize == 20

\* the fields NewUsageReporter sets
minBatchSize == usageReporterMinBatchSize
maxBatchSize == usageReporterMaxBatchSize
maxBufferSize == usageReporterMaxBufferSize

\* the sizes of the batches callers submit
BatchSizes == {0, 2, 9}

\* a batch that is the whole buffer, whatever its size
BatchWhole(b) == b

\* enqueueBatch: events, the batch to send
BatchOf(b) == IF Len(b) > maxBatchSize THEN SubSeq(b, 1, maxBatchSize) ELSE b

\* enqueueBatch: remaining, the buffer after a successful send
RemainingOf(b) ==
    IF Len(b) > maxBatchSize THEN SubSeq(b, maxBatchSize + 1, Len(b)) ELSE <<>>

\* an enqueueBatch that shortens the buffer whether or not the send succeeded
enqueueBatchLossy(b, ready) ==
    IF Len(b) = 0 THEN [buf |-> b, sent |-> <<>>]
    ELSE [buf |-> RemainingOf(b), sent |-> IF ready THEN BatchOf(b) ELSE <<>>]

\* enqueueBatch on the buffer b; ready says whether runSubmit is waiting to
\* receive from submissionQueue, so that the send of the select succeeds;
\* sent is the batch handed over, <<>> when nothing was
enqueueBatch(b, ready) ==
    IF Len(b) = 0 THEN [buf |-> b, sent |-> <<>>]
    ELSE IF ready THEN [buf |-> RemainingOf(b), sent |-> BatchOf(b)]
    ELSE [buf |-> b, sent |-> <<>>]

\* a receive that keeps the whole batch
KeptAll(b, evs) == evs

\* Run, case events: the part of a received batch that goes into the buffer b
Kept(b, evs) ==
    IF Len(b) >= maxBufferSize THEN <<>>
    ELSE IF Len(b) + Len(evs) > maxBufferSize THEN SubSeq(evs, 1, maxBufferSize - Len(b))
    ELSE evs

\* r.enqueueBatch() in Run, with runSubmit at position at and holding the
\* batch held
Enqueue(b, at, held) ==
    LET e == enqueueBatch(b, at = "select") IN
    /\ buf' = e.buf
    /\ IF e.sent # <<>>
       THEN submitting' = e.sent /\ spc' = "submit"
       ELSE submitting' = held /\ spc' = at

\* timer.Reset(r.maxBatchAge): the timer is armed again; an expiry that Run
\* has not yet read from timer.Chan() may stay in the channel
timerReset(t) == IF t = "expired" THEN {"armed", "expired"} ELSE {"armed"}

\* Run starts: go r.runSubmit(), the timer, the loop
RunStart ==
    /\ rpc = "new"
    /\ rpc' = "select"
    /\ spc' = "start"
    /\ timer' = "armed"
    /\ UNCHANGED <<buf, events, submitting, done, nextEvent, discarded, submitted, failures, notUsage>>

\* SubmitAnonymizedUsageEvents: the events are converted and the caller blocks
\* in r.events <- anonymized.  One caller makes its calls one after the other:
\* Run sees the batches of several callers as it sees those of one
SubmitAnonymizedUsageEvents ==
    /\ \A i \in DOMAIN events : events[i].from # "caller"
    /\ \E n \in BatchSizes :
          /\ nextEvent + n - 1 <= MaxEvents
          /\ events' = Append(events, [from |-> "caller",
                                       batch |-> [i \in 1..n |-> nextEvent + i - 1]])
          /\ nextEvent' = nextEvent + n
    /\ UNCHANGED <<buf, rpc, spc, submitting, done, discarded, submitted, failures, timer, notUsage>>

\* the context of the reporter is cancelled
Cancel ==
    /\ ~done
    /\ done' = TRUE
    /\ UNCHANGED <<buf, events, rpc, spc, submitting, nextEvent, discarded, submitted, failures, timer, notUsage>>

\* Run, case <-r.ctx.Done()
RunDone ==
    /\ rpc = "select" /\ done
    /\ rpc' = "returned"
    /\ UNCHANGED <<buf, events, spc, submitting, done, nextEvent, discarded, submitted, failures, timer, notUsage>>

\* maxBatchAge has passed since the timer was armed
TimerExpire ==
    /\ timer = "armed"
    /\ timer' = "expired"
    /\ UNCHANGED <<buf, events, rpc, spc, submitting, done, nextEvent, discarded, submitted,
                   failures, notUsage>>

\* Run, case <-timer.Chan(): the timer is reset and the buffer enqueued
RunTimer ==
    /\ rpc = "select"
    /\ timer = "expired"
    /\ timer' = "armed"
    /\ Enqueue(buf, spc, submitting)
    /\ UNCHANGED <<events, rpc, done, nextEvent, discarded, submitted, failures, notUsage>>

\* Run, case events := <-r.events: one of the blocked sends completes
RunEvents ==
    /\ rpc = "select"
    /\ \E i \in DOMAIN events :
          LET evs == events[i].batch
              resubmitted == events[i].from = "submitter"
              at == IF resubmitted THEN "start" ELSE spc
              held == IF resubmitted THEN <<>> ELSE submitting
              keep == Kept(buf, evs)
          IN  /\ events' = SubSeq(events, 1, i - 1) \o SubSeq(events, i + 1, Len(events))
              /\ discarded' = discarded \cup {evs[j] : j \in (Len(keep) + 1)..Len(evs)}
              /\ IF Len(buf) >= maxBufferSize
                 THEN buf' = buf /\ spc' = at /\ submitting' = held /\ timer' = timer
                 ELSE IF Len(buf \o keep) >= minBatchSize
                 THEN timer' \in timerReset(timer) /\ Enqueue(buf \o keep, at, held)
                 ELSE buf' = buf \o keep /\ spc' = at /\ submitting' = held /\ timer' = timer
    /\ UNCHANGED <<rpc, done, nextEvent, submitted, failures, notUsage>>

\* runSubmit reaches its select and waits
SubmitWait ==
    /\ spc = "start"
    /\ spc' = "select"
    /\ UNCHANGED <<buf, events, rpc, submitting, done, nextEvent, discarded, submitted, failures, timer, notUsage>>

\* runSubmit, case <-r.ctx.Done()
SubmitDone ==
    /\ spc = "select" /\ done
    /\ spc' = "returned"
    /\ UNCHANGED <<buf, events, rpc, submitting, done, nextEvent, discarded, submitted, failures, timer, notUsage>>

\* r.submit(r, batch) returns nil
SubmitOk ==
    /\ spc = "submit"
    /\ submitted' = submitted \cup {submitting[j] : j \in 1..Len(submitting)}
    /\ submitting' = <<>>
    /\ spc' = "start"
    /\ UNCHANGED <<buf, events, rpc, done, nextEvent, discarded, failures, timer, notUsage>>

\* r.submit(r, batch) returns an error: r.resubmitEvents(batch) blocks in
\* r.events <- events
SubmitFail ==
    /\ spc = "submit"
    /\ failures < MaxFailures
    /\ failures' = failures + 1
    /\ events' = Append(events, [from |-> "submitter", batch |-> submitting])
    /\ spc' = "resubmit"
    /\ UNCHANGED <<buf, rpc, submitting, done, nextEvent, discarded, submitted, timer, notUsage>>

UsageNext ==
    \/ RunStart
    \/ SubmitAnonymizedUsageEvents
    \/ Cancel
    \/ RunDone
    \/ TimerExpire
    \/ RunTimer
    \/ RunEvents
    \/ SubmitWait
    \/ SubmitDone
    \/ SubmitOk
    \/ SubmitFail

\* nothing of the solver or of the DPLL solver runs beside the reporter
UsageSpecInit ==
    /\ SolverInit
    /\ dpll = NoDpll
    /\ UsageInit
    /\ RestInit

UsageSpec == UsageSpecInit /\ [][UsageNext]_vars

(***************************************************************************)
(* The auth server's role operations (access.go).  A call runs under the   *)
(* caller's goroutine from its first backend read to its return; the       *)
(* calls of one sequence are taken one after the other.                    *)
(***************************************************************************)

\* the backend calls UpsertRole and DeleteRole make, any of which may
\* return an error
UpsertBackends == {"none", "GetRoles", "GetUsers", "UpsertRole"}
DeleteBackends == {"none", "GetUsers", "GetCertAuthorities", "DeleteRole"}

\* a server with stored roles, users and user cert authorities
AccessInit ==
    /\ SolverInit
    /\ dpll = NoDpll
    /\ UsageInit
    /\ refs = NoRefs
    /\ server \in {[NoServer EXCEPT !.roles = r, !.users = u, !.cas = c] :
                      r \in StoredRoles, u \in UserSets, c \in CertAuthorities}

\* Server.UpsertRole
UpsertRole ==
    /\ server.ncalls < MaxRoleCalls
    /\ \E name \in RoleNames, allow \in RuleSets, fails \in UpsertBackends :
          LET role == Role(name, allow)
              res == upsertRole(server, role, fails)
          IN  server' = [server EXCEPT
                  !.roles = res.roles,
                  !.audit = res.audit,
                  !.ret = [op |-> "UpsertRole", name |-> name, role |-> role,
                           fails |-> fails, err |-> res.err],
                  !.ncalls = @ + 1]
    /\ UNCHANGED notServer

\* Server.DeleteRole
DeleteRole ==
    /\ server.ncalls < MaxRoleCalls
    /\ \E name \in RoleNames, fails \in DeleteBackends :
          LET res == deleteRole(server, name, fails)
          IN  server' = [server EXCEPT
                  !.roles = res.roles,
                  !.audit = res.audit,
                  !.ret = [op |-> "DeleteRole", name |-> name, role |-> Role("", {}),
                           fails |-> fails, err |-> res.err],
                  !.ncalls = @ + 1]
    /\ UNCHANGED notServer

AccessNext ==
    \/ UpsertRole
    \/ DeleteRole

AccessSpec == AccessInit /\ [][AccessNext]_vars

(***************************************************************************)
(* Execution refs (executor.go): a ref is turned into its string and the   *)
(* string parsed back; parseRef is also handed strings of any shape.       *)
(***************************************************************************)
RefInit ==
    /\ SolverInit
    /\ dpll = NoDpll
    /\ UsageInit
    /\ server = NoServer
    /\ refs \in {[NoRefs EXCEPT !.pc = "ref", !.r = r] : r \in Refs}
            \cup {[NoRefs EXCEPT !.pc = "given", !.s = str] : str \in StringsUpTo(MaxStrLen)}

\* ref.String
RefString ==
    /\ refs.pc = "ref"
    /\ refs' = [refs EXCEPT !.pc = "string", !.s = refString(refs.r)]
    /\ UNCHANGED notRefs

\* parseRef on the string of a ref
RefParse ==
    /\ refs.pc = "string"
    /\ LET res == parseRef(refs.s)
       IN  refs' = [refs EXCEPT !.pc = "roundtrip", !.parsed = res.r, !.ok = res.ok]
    /\ UNCHANGED notRefs

\* parseRef on a string that no ref produced
RefParseGiven ==
    /\ refs.pc = "given"
    /\ LET res == parseRef(refs.s)
       IN  refs' = [refs EXCEPT !.pc = "parsed", !.parsed = res.r, !.ok = res.ok]
    /\ UNCHANGED notRefs

RefNext ==
    \/ RefString
    \/ RefParse
    \/ RefParseGiven

RefSpec == RefInit /\ [][RefNext]_vars

(***************************************************************************)
(* Direct evaluation of a predicate: the reference the soundness and       *)
(* completeness claims compare the solver's answers with.  env gives every *)
(* identifier path of the predicate a scalar value.                        *)
(***************************************************************************)
RECURSIVE PathOf(_)
\* the fields of a selector chain, or <<>> when it is not one
PathOf(n) ==
    CASE n.node = "Ident" -> <<n.Name>>
      [] n.node = "SelectorExpr" ->
           IF PathOf(n.X) = <<>> THEN <<>> ELSE Append(PathOf(n.X), n.Sel)
      [] OTHER -> <<>>

RECURSIVE PathsIn(_)
\* the identifier paths that occur in a predicate
PathsIn(n) ==
    CASE n.node = "Ident" -> IF n.Name \in {"true", "false"} THEN {} ELSE {<<n.Name>>}
      [] n.node = "SelectorExpr" -> IF PathOf(n) = <<>> THEN PathsIn(n.X) ELSE {PathOf(n)}
      [] n.node = "BinaryExpr" -> PathsIn(n.X) \cup PathsIn(n.Y)
      [] n.node \in {"UnaryExpr", "ParenExpr"} -> PathsIn(n.X)
      [] n.node = "CallExpr" -> PathsIn(n.Fun) \cup PathsIn(n.Arg)
      [] n.node = "IndexExpr" -> PathsIn(n.X) \cup PathsIn(n.Index)
      [] OTHER -> {}

OrderingOps == {"LSS", "LEQ", "GTR", "GEQ"}

RECURSIVE Direct(_, _)
\* the scalar a predicate evaluates to under env, NoValue on a type error
Direct(env, n) ==
    CASE n.node = "Ident" ->
           IF n.Name = "true" THEN BoolConst(TRUE)
           ELSE IF n.Name = "false" THEN BoolConst(FALSE)
           ELSE env[<<n.Name>>]
      [] n.node = "SelectorExpr" -> IF PathOf(n) = <<>> THEN NoValue ELSE env[PathOf(n)]
      [] n.node = "BasicLit" ->
           IF n.Kind = "INT" /\ Atoi(n.Value).ok THEN IntConst(Atoi(n.Value).n)
           ELSE IF n.Kind = "STRING" THEN StringConst(SubSeq(n.Value, 2, Len(n.Value) - 1))
           ELSE NoValue
      [] n.node = "ParenExpr" -> Direct(env, n.X)
      [] n.node = "UnaryExpr" ->
           LET x == Direct(env, n.X) IN
           IF n.Op = "NOT" /\ x.k = "const" /\ x.sort = "Bool" THEN BoolConst(~x.b) ELSE NoValue
      [] n.node = "BinaryExpr" ->
           LET x == Direct(env, n.X)
               y == Direct(env, n.Y)
           IN IF x.k # "const" \/ y.k # "const" \/ x.sort # y.sort THEN NoValue
              ELSE IF n.Op = "EQL" THEN BoolConst(x = y)
              ELSE IF n.Op \in OrderingOps /\ x.sort = "Int"
                   THEN BoolConst(CASE n.Op = "LSS" -> x.i < y.i
                                    [] n.Op = "LEQ" -> x.i <= y.i
                                    [] n.Op = "GTR" -> x.i > y.i
                                    [] OTHER -> x.i >= y.i)
              ELSE IF n.Op \in {"LAND", "LOR"} /\ x.sort = "Bool"
                   THEN BoolConst(IF n.Op = "LAND" THEN x.b /\ y.b ELSE x.b \/ y.b)
              ELSE NoValue
      [] OTHER -> NoValue

\* the scalar a resolver result stands for
ScalarOf(g) ==
    CASE g.t = "int" -> IntConst(g.i)
      [] g.t = "string" -> StringConst(g.s)
      [] g.t = "bool" -> BoolConst(g.b)
      [] OTHER -> NoValue

\* the environments of a call in which the queried identifier is v: the queried
\* path is v, a resolver-known path has its resolved value, any other path is free
EnvsFor(a, v) ==
    {e \in [PathsIn(a.predicate.ast) -> AllValues] :
        \A p \in PathsIn(a.predicate.ast) :
            IF Join(p) = a.querying THEN e[p] = v
            ELSE a.resolveIdentifier[p].t # "nil" => e[p] = ScalarOf(a.resolveIdentifier[p])}

\* v makes the predicate of the call true
Satisfies(a, v) ==
    a.predicate.ok /\ \E e \in EnvsFor(a, v) : Direct(e, a.predicate.ast) = BoolConst(TRUE)

Range(seq) == {seq[p] : p \in 1..Len(seq)}

\* C1: every value a call returns with a nil error makes the predicate true once
\* the queried identifier is set to it and the known identifiers to their values
C1_Soundness ==
    (cpc = "returned" /\ result.err = "") =>
        \A v \in Range(result.vals) : Satisfies(args, v)

\* C2: when partialSolveForAllImpl returns a list with a nil error, every value of
\* the query sort that is not in the list makes the predicate false
C2_Completeness ==
    (gpc = "send" /\ err = "") =>
        \A v \in DomainOf(SortFor(args.to)) \ Range(out) : ~Satisfies(args, v)

NoDup(seq) == \A p, q \in 1..Len(seq) : p # q => seq[p] # seq[q]

\* positions of the goroutine after partialSolveForAllImpl has returned
LeftImpl == {"send", "closeErr", "closeOut", "exited"}

\* C3: no value occurs twice in the list the loop collects, at any iteration, nor
\* in the list PartialSolveForAll returns
C3_NoDuplicates ==
    /\ NoDup(out)
    /\ cpc = "returned" => NoDup(result.vals)

\* a call returned a list of at least two values
C3_Witness == cpc = "returned" /\ branch = "out" /\ Len(result.vals) >= 2

\* C4: when the solve goroutine ended with an error, the caller gets a non-nil error
C4_ErrorsSurfaced ==
    (cpc = "returned" /\ err # "") => result.err # ""

\* C5: a call that took the timer branch returns no values and LimitExceeded
C5_TimeoutReturnsNothing ==
    (cpc = "returned" /\ branch = "timer") =>
        result = [vals |-> <<>>, err |-> "LimitExceeded"]

\* the timer branch was taken and the drain received a complete, non-empty list
C5_Witness ==
    cpc = "returned" /\ branch = "timer" /\ err = "" /\ out # <<>> /\ outCh.buf = <<>>

\* C6: once PartialSolveForAll has returned, the solve goroutine is no longer in
\* partialSolveForAllImpl (it does no Assert, Check, model read or Reset)
C6_JoinOnCancel ==
    cpc = "returned" => gpc \in LeftImpl

\* the timer fired during a Check, the Check was interrupted and the caller
\* returned after the goroutine had left partialSolveForAllImpl
C6_Witness ==
    cpc = "returned" /\ branch = "timer" /\ interrupted /\ err = "ErrSatUnknown"

\* C7: with no call in flight the assertion stack is empty, and so it is after
\* every exit of partialSolveForAllImpl
C7_ResetOnExit ==
    /\ cpc \in {"idle", "returned"} => stack = <<>>
    /\ gpc \in LeftImpl => stack = <<>>

\* a call that asserted the predicate and a blocking constraint has ended with
\* NotFound, an interrupt or a value list
C7_Witness ==
    /\ cpc = "returned"
    /\ \/ err = "NotFound"
       \/ err = "ErrSatUnknown"
       \/ err = "" /\ Len(out) >= 1

\* the outcome of partialSolveForAllImpl on a solver with an empty stack, when no
\* Check is interrupted: the error and the set of values
FreshOutcome(a) ==
    IF ~a.predicate.ok THEN [err |-> "SyntaxError", vals |-> {}]
    ELSE IF SortFor(a.to) = "" THEN [err |-> "BadParameter", vals |-> {}]
    ELSE LET c0 == [idents |-> <<>>, unkTy |-> SortFor(a.to),
                    resolveIdentifier |-> a.resolveIdentifier, rcalls |-> <<>>]
             r == lower(c0, a.predicate.ast)
         IN IF r.err # "" THEN [err |-> r.err, vals |-> {}]
            ELSE IF Models(<<r.v>>) = {} THEN [err |-> "", vals |-> {}]
            ELSE IF a.querying \notin DOMAIN r.c.idents THEN [err |-> "NotFound", vals |-> {}]
            ELSE [err |-> "", vals |-> {Eval(m, r.c.idents[a.querying]) : m \in Models(<<r.v>>)}]

\* C8: what partialSolveForAllImpl returns (error, set of values) is what it
\* returns for the same arguments on a fresh solver, whatever calls came before
C8_HistoryIndependent ==
    (gpc = "send" /\ err # "ErrSatUnknown") =>
        [err |-> err, vals |-> Range(out)] = FreshOutcome(args)

\* a second call on the same Solver has returned a non-empty list
C8_Witness == calls = 2 /\ gpc = "send" /\ err = "" /\ out # <<>>

\* the queried path occurs in the predicate
QueryOccurs(a) == \E p \in PathsIn(a.predicate.ast) : Join(p) = a.querying

\* C9: when the queried path does not occur in the predicate,
\* partialSolveForAllImpl returns an error, never a list with a nil error
C9_NotFoundWhenVacuous ==
    (gpc = "send" /\ args.predicate.ok /\ ~QueryOccurs(args)) => err # ""

\* C10: after lowering, the queried path is bound to a free variable of the
\* declared query sort
C10_QueryIsFree ==
    (gpc = "assert" /\ args.querying \in DOMAIN lctx.idents) =>
        lctx.idents[args.querying] = Var(args.querying, SortFor(args.to))


(***************************************************************************)
(* The enumeration loop.                                                   *)
(***************************************************************************)
\* the values the queried term q takes in the models of the assertions st
QueryValues(st, q) == {Eval(a, q) : a \in Models(st)}

InLoop == {"check", "inCheck", "model", "lookup", "eval", "neq"}

HoldsIn(a, st) ==
    /\ DOMAIN a = StackVars(st)
    /\ \A p \in 1..Len(st) : Eval(a, st[p]).b

\* C21: ordering inside the loop: a model is obtained only after a satisfiable
\* Check, the queried value is read from that model while the assertions are
\* still the ones the model was obtained for, the value is appended, and only
\* then is the disequality for that value asserted
C21_LoopOrdering ==
    /\ gpc \in {"lookup", "eval", "neq"} =>
          /\ checks # <<>> /\ checks[Len(checks)] = "sat"
          /\ HoldsIn(model, stack)
          /\ Len(stack) = Len(checks)
    /\ gpc \in {"lookup", "eval"} => Len(out) = Len(checks) - 1
    /\ gpc = "neq" =>
          /\ last = Eval(model, val)
          /\ Len(out) = Len(checks) /\ out[Len(out)] = last
    /\ (gpc = "check" /\ out # <<>>) =>
          /\ stack[Len(stack)] = Distinct(val, out[Len(out)])
          /\ Len(stack) = Len(out) + 1

\* the second value has been read and appended, its disequality is not yet asserted
C21_Witness == gpc = "neq" /\ Len(out) = 2 /\ Len(stack) = 2

\* C22: an unknown identifier that is not the queried path takes the sort its
\* context requires: with an integer query x and unknown env.stage, the
\* predicate env.stage == "a" && x > 1 lowers and is enumerated without an error
C22_UnknownSortFromContext ==
    (gpc = "send"
        /\ args.predicate = Parsed(BinaryExpr(BinaryExpr(Stage, "EQL", StrA), "LAND",
                                              BinaryExpr(X, "GTR", Int1)))
        /\ args.querying = <<"x">> /\ args.to = TypeInt
        /\ args.resolveIdentifier = NothingKnown
        /\ err # "ErrSatUnknown") =>
        err = ""

(***************************************************************************)
(* Errors of the lowering.                                                 *)
(***************************************************************************)
\* C12: a sort mismatch is reported as an error: the solve goroutine never
\* ends in a failed type assertion, and the caller is never taken down by one
C12_NoPanic == gpc \notin {"panic", "crashed"} /\ cpc # "crashed"

RECURSIVE HasCallOrIndex(_)
\* the predicate contains a function call or an index expression
HasCallOrIndex(n) ==
    CASE n.node \in {"CallExpr", "IndexExpr"} -> TRUE
      [] n.node = "BinaryExpr" -> HasCallOrIndex(n.X) \/ HasCallOrIndex(n.Y)
      [] n.node \in {"UnaryExpr", "ParenExpr", "SelectorExpr"} -> HasCallOrIndex(n.X)
      [] OTHER -> FALSE

\* C13: a predicate containing a function call or an index expression fails
\* with the not-supported kind of error (trace.NotImplemented), and nothing
\* has been asserted on the solver
C13_NotSupported ==
    (gpc = "exit" /\ args.predicate.ok /\ SortFor(args.to) # ""
        /\ HasCallOrIndex(args.predicate.ast)) =>
        err = "NotImplemented" /\ stack = <<>>

(***************************************************************************)
(* Identifier resolution.                                                  *)
(***************************************************************************)
\* C16: within one call the resolver callback is invoked at most once for
\* each identifier path
C16_ResolverMemoized == NoDup(lctx.rcalls)

RECURSIVE Occurrences(_, _)
\* how many times the path occurs in the predicate
Occurrences(n, path) ==
    CASE n.node \in {"Ident", "SelectorExpr"} -> IF PathOf(n) = path THEN 1 ELSE 0
      [] n.node = "BinaryExpr" -> Occurrences(n.X, path) + Occurrences(n.Y, path)
      [] n.node \in {"UnaryExpr", "ParenExpr"} -> Occurrences(n.X, path)
      [] OTHER -> 0

\* a predicate with two occurrences of a path the resolver knows has been
\* lowered with one resolver call
C16_Witness ==
    /\ gpc = "assert"
    /\ \E fields \in Range(lctx.rcalls) :
          /\ lctx.resolveIdentifier[fields].t # "nil"
          /\ Occurrences(args.predicate.ast, fields) >= 2
          /\ Cardinality({i \in 1..Len(lctx.rcalls) : lctx.rcalls[i] = fields}) = 1

\* C17: a path the resolver knows as an Int, a Bool or a String is bound to
\* a constant of the matching sort, and the lowering does not fail on it
C17_KnownAccepted ==
    \A i \in 1..Len(lctx.rcalls) :
        LET fields == lctx.rcalls[i]
            known == lctx.resolveIdentifier[fields]
        IN  known.t # "nil" =>
                /\ Join(fields) \in DOMAIN lctx.idents
                /\ lctx.idents[Join(fields)] = ScalarOf(known)

\* C18: for a boolean queried identifier x the resolver does not know, the
\* predicate x == false yields exactly {false} and x == true exactly {true}
C18_BooleanLiterals ==
    \A b \in {"true", "false"} :
        (gpc = "send" /\ args.predicate = Parsed(BinaryExpr(X, "EQL", Ident(b)))
            /\ args.querying = <<"x">> /\ args.to = TypeBool
            /\ args.resolveIdentifier[<<"x">>].t = "nil"
            /\ err # "ErrSatUnknown") =>
            err = "" /\ Range(out) = {BoolConst(b = "true")}

\* C19: a comparison of an integer identifier with a negative decimal literal
\* is lowered and enumerated: the call does not fail
C19_NegativeLiterals ==
    (gpc = "send" /\ args.predicate = Parsed(BinaryExpr(X, "EQL", UnaryExpr("SUB", Int1)))
        /\ args.to = TypeInt /\ args.resolveIdentifier[<<"x">>].t = "nil"
        /\ err # "ErrSatUnknown") =>
        err = ""

(***************************************************************************)
(* The completion signals.                                                 *)
(***************************************************************************)
\* C20: at most one of outCh and errCh has ever carried a value, a value is
\* sent at most once, and a goroutine that has exited has populated exactly one
C20_CompletionSignals ==
    /\ sent.out + sent.err <= 1
    /\ Len(outCh.buf) <= sent.out /\ Len(errCh.buf) <= sent.err
    /\ gpc \in {"closeErr", "closeOut", "exited"} => sent.out + sent.err = 1
    /\ gpc \notin {"closeErr", "closeOut", "exited"} => sent.out + sent.err = 0

\* the goroutine has exited after a send on errCh
C20_Witness == gpc = "exited" /\ sent.err = 1 /\ sent.out = 0

(***************************************************************************)
(* The DPLL solver against the semantics of the formula.                   *)
(***************************************************************************)
\* the value of a formula under a total truth assignment of its identifiers
RECURSIVE Holds(_, _)
Holds(truth, node) ==
    CASE node.type = "literal" -> node.value
      [] node.type = "identifier" -> truth[node.key]
      [] node.type = "not" -> ~Holds(truth, node.left)
      [] node.type = "or" -> Holds(truth, node.left) \/ Holds(truth, node.right)
      [] OTHER -> Holds(truth, node.left) /\ Holds(truth, node.right)

\* what an SMT check answers with every identifier free
Satisfiable(node) == \E truth \in [KeysOf(node) -> BOOLEAN] : Holds(truth, node)

\* C14: DPLL correctness: once newState and dpll have run on a formula, the
\* result is true exactly when some truth assignment of the identifiers
\* satisfies the formula, and false otherwise
C14_DpllCorrect ==
    dpll.pc = "done" =>
        dpll.result = IF Satisfiable(dpll.formula) THEN "true" ELSE "false"

\* C15: the DPLL path always answers with a boolean: newState followed by
\* dpll never ends in a panic (unreachable, nil dereference, slice out of range)
C15_DpllAnswers ==
    /\ dpll.result # "panic"
    /\ dpll.pc = "done" => dpll.result \in {"true", "false"}


(***************************************************************************)
(* The buckets newState builds.                                            *)
(***************************************************************************)
\* C23: classification in newState: enforce holds exactly the clauses without
\* an identifier, uprop exactly the clauses with one distinct identifier
C23_Classification ==
    dpll.pc = "dpll" =>
        \A i \in DOMAIN dpll.state.clauses :
            LET clause == dpll.state.clauses[i] IN
            /\ clause \in Range(dpll.state.enforce) <=> KeysOf(clause) = {}
            /\ clause \in Range(dpll.state.uprop) <=> Cardinality(KeysOf(clause)) = 1

\* C24: watched-literal index: a clause with two or more distinct identifiers
\* is registered under two distinct identifiers of its own, and every entry of
\* the index lists only clauses that contain its key
C24_WatchedIndex ==
    dpll.pc = "dpll" =>
        /\ \A i \in DOMAIN dpll.state.clauses :
              LET clause == dpll.state.clauses[i] IN
              Cardinality(KeysOf(clause)) >= 2 =>
                  \E k1, k2 \in KeysOf(clause) \cap DOMAIN dpll.state.watched :
                      /\ k1 # k2
                      /\ clause \in Range(dpll.state.watched[k1])
                      /\ clause \in Range(dpll.state.watched[k2])
        /\ \A k \in DOMAIN dpll.state.watched :
              \A clause \in Range(dpll.state.watched[k]) : k \in KeysOf(clause)

(***************************************************************************)
(* Clause evaluation and the search.                                       *)
(***************************************************************************)
\* a literal is an identifier or a negated identifier; a clause is a
\* disjunction of literals
IsLiteral(node) ==
    \/ node.type = "identifier"
    \/ node.type = "not" /\ node.left.type = "identifier"

RECURSIVE IsClause(_)
IsClause(node) ==
    \/ IsLiteral(node)
    \/ node.type = "or" /\ IsClause(node.left) /\ IsClause(node.right)

RECURSIVE LiteralsOf(_)
\* the literals of a clause, each with the polarity that satisfies it
LiteralsOf(clause) ==
    CASE clause.type = "identifier" -> {assignment(clause.key, TRUE)}
      [] clause.type = "not" -> {assignment(clause.left.key, FALSE)}
      [] OTHER -> LiteralsOf(clause.left) \cup LiteralsOf(clause.right)

\* the three-valued value of a clause under the assignments of a state
ThreeValued(st, clause) ==
    LET matches(lit) == isAssigned(st, lit.key) = <<TRUE, lit.value>>
        assigned(lit) == isAssigned(st, lit.key)[1]
    IN  IF \E lit \in LiteralsOf(clause) : matches(lit) THEN dpllSatisfied
        ELSE IF \A lit \in LiteralsOf(clause) : assigned(lit) THEN dpllUnsatisfied
        ELSE dpllUnknown

\* C25: three-valued clause evaluation: wherever dpll evaluates a clause
\* (enforce check, backtrackAdjust), evalClause answers satisfied when some
\* literal matches its assigned polarity, unsatisfied when every literal is
\* assigned and none matches, and unknown otherwise
C25_EvalClause ==
    dpll.pc \in {"enforce", "adjust"} =>
        \A i \in DOMAIN dpll.state.clauses :
            IsClause(dpll.state.clauses[i]) =>
                evalClause(dpll.state, dpll.state.clauses[i])
                    = ThreeValued(dpll.state, dpll.state.clauses[i])

\* C26: enforce check: when dpll has run on a state with an enforce clause
\* that does not evaluate to satisfied, it has returned false and assigned nothing
C26_EnforceCheck ==
    (dpll.pc = "done" /\ \E i \in DOMAIN dpll.state.enforce :
                            evalClause(dpll.state, dpll.state.enforce[i]) # dpllSatisfied) =>
        dpll.result = "false" /\ dpll.state.assignments = <<>>

RECURSIVE IdentsOf(_)
\* the identifiers of a node in reading order, left operand before right
IdentsOf(node) ==
    CASE node.type = "literal" -> <<>>
      [] node.type = "identifier" -> <<node.key>>
      [] node.type = "not" -> IdentsOf(node.left)
      [] OTHER -> IdentsOf(node.left) \o IdentsOf(node.right)

RECURSIVE FirstOccurrences(_, _)
\* seq without the repetitions of what is in seen or earlier in seq
FirstOccurrences(seq, seen) ==
    IF seq = <<>> THEN <<>>
    ELSE IF Head(seq) \in seen THEN FirstOccurrences(Tail(seq), seen)
    ELSE <<Head(seq)>> \o FirstOccurrences(Tail(seq), seen \cup {Head(seq)})

RECURSIVE ClauseIdents(_, _)
\* the identifiers of the clauses from the i-th on, clause by clause
ClauseIdents(clauses, i) ==
    IF i > Len(clauses) THEN <<>>
    ELSE IdentsOf(clauses[i]) \o ClauseIdents(clauses, i + 1)

DecisionOrder(st) == FirstOccurrences(ClauseIdents(st.clauses, 1), {})

C28_Backtracking ==
    /\ dpll.pc = "pick" =>
          \A i \in DOMAIN dpll.state.clauses :
              IsClause(dpll.state.clauses[i]) =>
                  ThreeValued(dpll.state, dpll.state.clauses[i]) # dpllUnsatisfied
    /\ (dpll.pc = "done" /\ dpll.result = "false" /\ dpll.state.assignments # <<>>) =>
          \A values \in [DOMAIN dpll.state.assignments -> BOOLEAN] :
              LET tried == [dpll.state EXCEPT !.assignments =
                               [i \in DOMAIN values |->
                                   assignment(dpll.state.assignments[i].key, values[i])]]
              IN  \E i \in DOMAIN dpll.state.clauses :
                      IsClause(dpll.state.clauses[i])
                          /\ ThreeValued(tried, dpll.state.clauses[i]) = dpllUnsatisfied


(***************************************************************************)
(* The usage reporter.                                                     *)
(***************************************************************************)
\* the events the reporter holds: in the buffer or in the submitter's batch
Held == Range(buf) \cup Range(submitting)

\* the step is Run's receive of the i-th blocked send on the events channel
Received(i) ==
    /\ i \in DOMAIN events
    /\ events' = SubSeq(events, 1, i - 1) \o SubSeq(events, i + 1, Len(events))

Min(a, b) == IF a < b THEN a ELSE b

\* a received batch is accepted up to the free space of the buffer, in order,
\* and the rest of it is discarded
AcceptedToFreeSpace ==
    \A i \in DOMAIN events :
        Received(i) =>
            LET evs == events[i].batch
                free == maxBufferSize - Len(buf)
                n == Min(free, Len(evs))
            IN  /\ {evs[j] : j \in 1..n} \subseteq Held'
                /\ {evs[j] : j \in (n + 1)..Len(evs)} \cap Held' = {}
                /\ discarded' = discarded \cup {evs[j] : j \in (n + 1)..Len(evs)}
                /\ Len(buf) >= maxBufferSize => buf' = buf

\* C29: the buffer never holds more than maxBufferSize events; a batch that
\* arrives when the buffer is full is discarded, and a batch that would
\* overflow the buffer is cut to the free space.
C29_BufferBound ==
    /\ Len(buf) <= maxBufferSize
    /\ [][Len(buf') <= maxBufferSize /\ AcceptedToFreeSpace]_vars

\* the buffer is full and a part of a batch did not fit
C29_Witness ==
    /\ Len(buf) = maxBufferSize
    /\ discarded # {}

\* the step hands a batch to runSubmit over the submission queue
HandOff == spc # "submit" /\ spc' = "submit"

IsPrefix(a, b) == Len(a) <= Len(b) /\ SubSeq(b, 1, Len(a)) = a

\* the batch handed over is the head of the buffer, all of it when it has no
\* more than maxBatchSize events, and the rest stays in the buffer in order
SplitInOrder ==
    HandOff =>
        /\ IsPrefix(buf, submitting' \o buf')
        /\ Len(submitting') = Min(maxBatchSize, Len(submitting' \o buf'))

\* C30: every batch placed on the submission queue, and so every batch passed
\* to the submit function, is non-empty and has at most maxBatchSize events; a
\* larger buffer is split and the remainder stays in the buffer in its order.
C30_BatchSize ==
    /\ spc \notin {"submit", "resubmit"}
    /\ [][/\ spc' \in {"submit", "resubmit"} =>
                Len(submitting') >= 1 /\ Len(submitting') <= maxBatchSize
           /\ SplitInOrder]_vars

\* eleven events were buffered and none discarded: ten are in the batch being
\* submitted and the eleventh stayed in the buffer
C30_Witness ==
    /\ spc = "submit"
    /\ nextEvent = maxBatchSize + 2
    /\ discarded = {}
    /\ Len(submitting) = maxBatchSize
    /\ buf = <<submitting[maxBatchSize] + 1>>

\* a call of SubmitAnonymizedUsageEvents is blocked in its send
CallerBlocked == \E i \in DOMAIN events : events[i].from = "caller"

\* C31: SubmitAnonymizedUsageEvents never blocks: whatever the submitter is
\* doing and whether or not the context is cancelled, a call completes its
\* send on the events channel.  Run is the only receiver of that channel, so
\* a call blocked in its send needs a Run that has not returned.
C31_NeverBlocks == CallerBlocked => rpc # "returned"

\* the step is Run's handling of an expiry of the maxBatchAge timer
TimerCase ==
    /\ rpc = "select"
    /\ timer = "expired"
    /\ timer' = "armed"
    /\ events' = events

\* C32: age-based flush: when the timer expires on a non-empty buffer, Run
\* hands a batch from the buffer to the submission queue, whatever the size of
\* the buffer and whether or not the submitter is busy with an earlier batch.
C32_AgeFlush ==
    [][(TimerCase /\ buf # <<>>) =>
          /\ spc' = "submit"
          /\ submitting' # <<>>
          /\ IsPrefix(submitting', buf)]_vars

\* the events of the calls still blocked in their send
RECURSIVE ArrivingCount(_)
\* the number of events in the callers' blocked sends
ArrivingCount(sends) ==
    IF sends = <<>> THEN 0
    ELSE (IF Head(sends).from = "caller" THEN Len(Head(sends).batch) ELSE 0)
         + ArrivingCount(Tail(sends))

Arriving == UNION {Range(events[i].batch) : i \in {j \in DOMAIN events : events[j].from = "caller"}}

\* every event submitted so far is in exactly one place: on its way in, in
\* the buffer, in the submitter's batch, submitted, or discarded (the places
\* hold all the events and as many entries as there are events)
Accounted ==
    /\ Arriving \cup Held \cup submitted \cup discarded = 1..(nextEvent - 1)
    /\ ArrivingCount(events) + Len(buf) + Len(submitting)
          + Cardinality(submitted) + Cardinality(discarded) = nextEvent - 1

\* the buffer loses events only to a batch handed to the submitter, and an
\* enqueueBatch that finds the queue not ready changes nothing
BufferFrame ==
    /\ Range(buf) \ Range(buf') # {} =>
          HandOff /\ Range(buf) \ Range(buf') \subseteq Range(submitting')
    /\ (TimerCase /\ spc # "select") => buf' = buf /\ submitting' = submitting

\* C37: events move atomically between the buffer and the submission queue:
\* enqueueBatch removes events from buf only when the send succeeded and
\* leaves buf unchanged otherwise, no event is at once in buf and in the batch
\* the submitter holds, and an accepted event leaves the reporter only by a
\* successful submit or by an overflow discard.
C37_AtomicMove ==
    /\ Accounted
    /\ [][Accounted' /\ BufferFrame]_vars

\* the submitter is busy with a whole buffer it was handed, a batch has been
\* submitted before, and the events that came since stay in the buffer although
\* they reached minBatchSize and an enqueue was tried
C37_Witness ==
    /\ spc = "submit"
    /\ Len(submitting) < maxBatchSize
    /\ Len(buf) >= minBatchSize
    /\ submitted # {}

(***************************************************************************)
(* The caller's select against the goroutine's send and closes.            *)
(***************************************************************************)
\* C35: a successful result is never lost: when the goroutine has sent its
\* result list on outCh and the caller returns without taking the timer
\* branch, the caller returns exactly that list with a nil error: taking the
\* closed errCh in place of the populated outCh would return no list.
C35_ResultNotLost ==
    (cpc = "returned" /\ branch # "timer" /\ sent.out = 1) =>
        result = [vals |-> out, err |-> ""]

\* the call solves x > 1 for the integer x: over the integers the satisfying
\* set has no end, and every Check that runs to its end finds a further value
Endless ==
    /\ args.predicate = Parsed(BinaryExpr(X, "GTR", Int1))
    /\ args.querying = <<"x">>
    /\ args.to = TypeInt

DeleteRoleCall == server'.ncalls = server.ncalls + 1 /\ server'.ret.op = "DeleteRole"
UpsertRoleCall == server'.ncalls = server.ncalls + 1 /\ server'.ret.op = "UpsertRole"
\* some user, some user cert authority lists the role name among its roles
UserLists(name) == \E u \in server.users : name \in u.roles
CALists(name) == \E ca \in server.cas : name \in ca.roles
\* the call left the role store and the audit log as they were
Untouched == server'.roles = server.roles /\ server'.audit = server.audit
\* the call removed the role and emitted the role-delete event
Removed(name) ==
    /\ name \in DOMAIN server.roles
    /\ server'.roles = [n \in DOMAIN server.roles \ {name} |-> server.roles[n]]
    /\ server'.audit = Append(server.audit, <<"role.deleted", name>>)
\* a role is removed and the event emitted only when nothing references it
RemovedOnlyUnused(name) ==
    \/ Untouched
    \/ Removed(name) /\ ~UserLists(name) /\ ~CALists(name)

\* C33: whenever some user or some user cert authority lists the role name,
\* DeleteRole returns BadParameter, the role store is unchanged and no
\* role-delete event is emitted; a role is removed and the event emitted only
\* when no user and no user CA references it.
C33_RefusesInUse ==
    [][DeleteRoleCall =>
        LET name == server'.ret.name IN
        /\ (UserLists(name) \/ CALists(name)) =>
              server'.ret.err = "BadParameter" /\ Untouched
        /\ RemovedOnlyUnused(name)]_vars

\* the read that would have shown the role in use returned an error
ReadFailed(name) ==
    \/ server'.ret.fails = "GetUsers"
    \/ server'.ret.fails = "GetCertAuthorities" /\ ~UserLists(name)

\* C33 as amended: a role in use is never deleted and the call returns an
\* error, BadParameter when the users (and, for a role no user lists, the user
\* cert authorities) could be read and the error of the failed read otherwise;
\* a role is removed and the event emitted only when nothing references it.
C33_RefusesInUseOrFails ==
    [][DeleteRoleCall =>
        LET name == server'.ret.name IN
        /\ (UserLists(name) \/ CALists(name)) =>
              /\ Untouched
              /\ server'.ret.err =
                    IF ReadFailed(name) THEN "ConnectionProblem" ELSE "BadParameter"
        /\ RemovedOnlyUnused(name)
        /\ server'.ret.err = "" => Removed(name)]_vars

\* DeleteRole refused a stored role that only a user cert authority lists
C33_Witness ==
    /\ server.ret.op = "DeleteRole"
    /\ server.ret.err = "BadParameter"
    /\ server.ret.fails = "none"
    /\ server.ret.name \in DOMAIN server.roles
    /\ ~UserLists(server.ret.name)
    /\ CALists(server.ret.name)

\* some local user holds a stored role that allows updating roles
CanEdit(srv) ==
    \E u \in srv.users :
        u.local /\ \E n \in u.roles \cap DOMAIN srv.roles : roleHasUpdateRolesRule(srv.roles[n])
\* the call is an UpsertRole that takes the update-roles rule from a stored role
RemovesRule ==
    /\ UpsertRoleCall
    /\ server'.ret.name \in DOMAIN server.roles
    /\ roleHasUpdateRolesRule(server.roles[server'.ret.name])
    /\ ~roleHasUpdateRolesRule(server'.ret.role)
\* some local user holds another stored role with the rule
OtherEditor(name) ==
    \E u \in server.users :
        u.local /\ \E n \in (u.roles \ {name}) \cap DOMAIN server.roles :
                       roleHasUpdateRolesRule(server.roles[n])

\* C38: if some local user holds a role that allows updating roles, then after
\* every UpsertRole and DeleteRole call some local user still does; an
\* UpsertRole that removes the rule from a role is rejected with BadParameter,
\* the stored role unchanged, when no local user holds another role with it.
C38_EditorPreserved ==
    [][/\ CanEdit(server) => CanEdit(server')
       /\ (RemovesRule /\ ~OtherEditor(server'.ret.name)) =>
              server'.ret.err = "BadParameter" /\ server'.roles = server.roles]_vars

\* C38 as amended: the ability is preserved by every call; an UpsertRole that
\* removes the rule while no local user holds another role with it is
\* rejected, the stored role unchanged, with BadParameter when the roles and
\* the users could be read and with the error of the failed read otherwise.
C38_EditorPreservedOrFails ==
    [][/\ CanEdit(server) => CanEdit(server')
       /\ (RemovesRule /\ ~OtherEditor(server'.ret.name)) =>
              /\ server'.roles = server.roles
              /\ server'.audit = server.audit
              /\ server'.ret.err =
                    IF server'.ret.fails \in {"GetRoles", "GetUsers"}
                    THEN "ConnectionProblem" ELSE "BadParameter"]_vars

\* an UpsertRole that would have taken the rule from the only role a local
\* user edits roles with was rejected after a call that went through
C38_Witness ==
    /\ server.ncalls = 2
    /\ server.ret.op = "UpsertRole"
    /\ server.ret.err = "BadParameter"
    /\ server.ret.fails = "none"
    /\ server.audit # <<>>
    /\ CanEdit(server)
    /\ server.ret.name \in DOMAIN server.roles
    /\ ~roleHasUpdateRolesRule(server.ret.role)

\* the string has no dash after its first character
NoDashAfterFirst(str) == \A p \in 2..Len(str) : str[p] # "-"

\* C34: for every ref with a non-empty Type, dashes included, and every ID up
\* to the largest, parseRef(r.String()) returns ok = true and a ref with the
\* same Type and ID; a string with no dash after its first character is
\* rejected with ok = false.
C34_RefRoundTrip ==
    /\ refs.pc = "roundtrip" =>
          /\ refs.ok
          /\ refs.parsed.Type = refs.r.Type
          /\ refs.parsed.ID = refs.r.ID
    /\ (refs.pc = "parsed" /\ NoDashAfterFirst(refs.s)) => ~refs.ok

\* the ref with a dash at the end of its Type and the largest ID went
\* through String and parseRef
C34_Witness ==
    /\ refs.pc = "roundtrip"
    /\ Len(refs.r.Type) > 1
    /\ refs.r.Type[Len(refs.r.Type)] = "-"
    /\ refs.r.ID = MaxUint
    /\ refs.s = refs.r.Type \o <<"-">> \o FormatUint(MaxUint)
    /\ refs.ok

====
